---- MODULE Spec2Model ----
(***************************************************************************)
(* A model of the context-assembly pipeline of juliet-cli:                 *)
(*   src/src/messages.py  Message, Turn                                    *)
(*   src/src/adapters.py  the adapters and ContextPipeline                 *)
(*   src/src/context.py   ChromaMemoryStore.store_turn / store_batch       *)
(*                                                                         *)
(* A Python string is a sequence of tokens: single characters where the    *)
(* code looks at characters (strip), and literal pieces of f-strings       *)
(* otherwise.  An f-string is the concatenation of its pieces.             *)
(*                                                                         *)
(* A similarity or distance is an integer number of 1/Scale units, so      *)
(* that 0.15 is 6 and 0.225 is 9; the model's distances are multiples of   *)
(* 4 units and its multipliers divide 4, which keeps best / multiplier     *)
(* exact.                                                                  *)
(***************************************************************************)
EXTENDS Integers, Sequences, FiniteSets, TLC

VARIABLES
    caches,     \* MessageCacheAdapter objects: object id -> [capacity, cache]
    added,      \* history: object id -> every turn ever passed to add_turn
    adapters,   \* ContextPipeline.adapters, an OrderedDict as a sequence of [name, adapter]
    regLog,     \* history: every register_adapter call, in call order
    chroma,     \* the vector store: collection name -> documents, in write order
    audit,      \* the audit file (json_export_path): its lines, in order
    clock,      \* datetime.now()
    nextTurn,   \* the next fresh uuid4
    out,        \* the last build_messages call and what it returned
    sres,       \* the last store_turn / store_batch call and how it ended
    rin,        \* the fetched result and parameters handed to the ranking code
    rout,       \* what the ranking code returned for rin
    pt,         \* the last call of app.py's or tui.py's code and how it ended
    fh,         \* the FileHandler's directory tree and its last call
    th,         \* two threads on one MessageCacheAdapter: the reader's and the writer's position
    aw,         \* threads appending to one audit file, and the file's bytes
    iso,        \* IsoClient.generate_response_with_tools: its message list and position
    ck,         \* chunk_text: its input and what it returned
    ym          \* the YAML store of conversations and the manager's last call

vars ==
    <<caches, added, adapters, regLog, chroma, audit, clock, nextTurn, out, sres, rin, rout, pt, fh,
      th, aw, iso, ck, ym>>

-----------------------------------------------------------------------------
(* Bounds of the model.                                                    *)

MaxCapacity == 2    \* capacities 0..MaxCapacity of a stand-alone cache
MaxAdds == 4        \* add_turn calls on one cache
MaxClock == 1       \* clock readings 0..MaxClock
MaxRegs == 1        \* register_adapter calls after construction
MaxTurns == 2       \* turns created (uuid4 values drawn)
MaxBatchSize == 2   \* the store's reported maximum batch size, 1..MaxBatchSize
MaxDocs == 3        \* documents in one fetched result
MaxTopK == 2        \* top_k values 0..MaxTopK

-----------------------------------------------------------------------------
(* Strings.                                                                *)

Max(a, b) == IF a >= b THEN a ELSE b
Min(a, b) == IF a <= b THEN a ELSE b

IsSpace(c) == c \in {" ", "\n", "\t"}

RECURSIVE LStrip(_)
LStrip(s) == IF s # <<>> /\ IsSpace(Head(s)) THEN LStrip(Tail(s)) ELSE s

RECURSIVE RStrip(_)
RStrip(s) == IF s # <<>> /\ IsSpace(s[Len(s)]) THEN RStrip(SubSeq(s, 1, Len(s) - 1)) ELSE s

\* str.strip()
Strip(s) == RStrip(LStrip(s))

\* sep.join(parts)
RECURSIVE Join(_, _)
Join(parts, sep) ==
    IF parts = <<>> THEN <<>>
    ELSE IF Len(parts) = 1 THEN parts[1]
    ELSE parts[1] \o sep \o Join(Tail(parts), sep)

-----------------------------------------------------------------------------
(* messages.py: Message and Turn.                                          *)

user_name == "wallscreet"

Message(role, speaker, content, timestamp) ==
    [role |-> role, speaker |-> speaker, content |-> content, timestamp |-> timestamp]

\* Message.to_memory_string: f"{speaker} @ {timestamp}: {content}"
to_memory_string(m) == <<m.speaker, " @ ", m.timestamp, ": ">> \o m.content

Turn(uuid, conversation_id, request, response) ==
    [uuid |-> uuid, conversation_id |-> conversation_id, request |-> request, response |-> response]

\* datetime.now().isoformat()
isoformat(t) == "T" \o ToString(t)

\* The turn process_turn builds from a request, a response and the clock.
MakeTurn(uuid, conversation_id, user_message, response, t) ==
    Turn(uuid, conversation_id,
         Message("user", user_name, user_message, isoformat(t)),
         Message("assistant", "Juliet", response, isoformat(t)))

\* Message contents the model draws from.
Contents == {<<"h", "i">>, <<"y", "o">>}

-----------------------------------------------------------------------------
(* adapters.py: MessageCacheAdapter.                                       *)

\* A faulty append: a full deque refuses the new element instead of evicting the oldest.
DequeAppendDropNew(d, maxlen, x) == IF Len(d) >= maxlen THEN d ELSE Append(d, x)

\* A faulty append: the deque grows without bound.
DequeAppendUnbounded(d, maxlen, x) == Append(d, x)

\* deque(maxlen=capacity).append(x)
DequeAppend(d, maxlen, x) ==
    IF maxlen = 0 THEN d
    ELSE IF Len(d) >= maxlen THEN Append(Tail(d), x)
    ELSE Append(d, x)

MessageCacheAdapter(capacity) == [capacity |-> capacity, cache |-> <<>>]

\* MessageCacheAdapter.add_turn
CacheAddTurn(self, turn) == [self EXCEPT !.cache = DequeAppend(self.cache, self.capacity, turn)]

RECURSIVE HistoryLines(_)
HistoryLines(cache) ==
    IF cache = <<>> THEN <<>>
    ELSE <<to_memory_string(cache[1].request), to_memory_string(cache[1].response)>>
         \o HistoryLines(Tail(cache))

\* A faulty build_messages: an empty cache gives an empty chat_history block.
MessageCacheBuildMessagesAlways(self) ==
    <<[role |-> "system",
       content |-> <<"<chat_history>\n">> \o Join(HistoryLines(self.cache), <<"\n">>)
                   \o <<"\n</chat_history>">>]>>

\* MessageCacheAdapter.build_messages
MessageCacheBuildMessages(self) ==
    IF self.cache = <<>> THEN <<>>
    ELSE <<[role |-> "system",
            content |-> <<"<chat_history>\n">> \o Join(HistoryLines(self.cache), <<"\n">>)
                        \o <<"\n</chat_history>">>]>>

-----------------------------------------------------------------------------
(* adapters.py: ChromaContextAdapter, the ranking of one fetched result.    *)

Scale == 40                     \* one unit of similarity is 1/Scale
DefaultTopK == 5                \* top_k
DefaultMaxOverfetch == 30       \* max_overfetch
DefaultMinSimilarity == 6       \* min_similarity = 0.15, in units
DefaultMultiplier == 4          \* dynamic_multiplier = 4.0

ChromaContextAdapter(collection_name, tagging_mode) ==
    [kind |-> "chroma", requires_user_request |-> TRUE,
     collection_name |-> collection_name, tagging_mode |-> tagging_mode, arg |-> "", ref |-> 0]

\* A document's metadata: None, or a mapping.
NoneMeta == [isNone |-> TRUE, map |-> [none |-> TRUE]]
Mapping(m) == [isNone |-> FALSE, map |-> m]

AlnumChars ==
    {"a", "b", "c", "d", "e", "f", "g", "h", "i", "j", "k", "l", "m", "n", "o", "p", "q",
     "r", "s", "t", "u", "v", "w", "x", "y", "z",
     "A", "B", "C", "D", "E", "F", "G", "H", "I", "J", "K", "L", "M", "N", "O", "P", "Q",
     "R", "S", "T", "U", "V", "W", "X", "Y", "Z",
     "0", "1", "2", "3", "4", "5", "6", "7", "8", "9"}

\* The index of the last "." of s, or 0.
RECURSIVE LastDot(_)
LastDot(s) ==
    IF s = <<>> THEN 0
    ELSE IF s[Len(s)] = "." THEN Len(s)
    ELSE LastDot(SubSeq(s, 1, Len(s) - 1))

\* re.sub(r'\.[^.]+$', '', s)
SubExtension(s) ==
    LET i == LastDot(s)
    IN IF i = 0 \/ i = Len(s) THEN s ELSE SubSeq(s, 1, i - 1)

\* A faulty substitution: the hyphen is replaced as well.
SubNonAlnum(s) == [i \in 1..Len(s) |-> IF s[i] \in AlnumChars \cup {"_"} THEN s[i] ELSE "_"]

\* re.sub(r'[^a-zA-Z0-9_-]', '_', s)
SubOtherChars(s) == [i \in 1..Len(s) |-> IF s[i] \in AlnumChars \cup {"_", "-"} THEN s[i] ELSE "_"]

\* re.sub(r'_+', '_', s)
RECURSIVE SubUnderscoreRuns(_)
SubUnderscoreRuns(s) ==
    IF Len(s) < 2 THEN s
    ELSE IF s[1] = "_" /\ s[2] = "_" THEN SubUnderscoreRuns(Tail(s))
    ELSE <<s[1]>> \o SubUnderscoreRuns(Tail(s))

RECURSIVE LStripUnderscore(_)
LStripUnderscore(s) == IF s # <<>> /\ Head(s) = "_" THEN LStripUnderscore(Tail(s)) ELSE s

RECURSIVE RStripUnderscore(_)
RStripUnderscore(s) ==
    IF s # <<>> /\ s[Len(s)] = "_" THEN RStripUnderscore(SubSeq(s, 1, Len(s) - 1)) ELSE s

\* The inner tag of the source-file tagging mode.
CleanTag(source_file) ==
    LET t == RStripUnderscore(LStripUnderscore(SubUnderscoreRuns(SubOtherChars(SubExtension(source_file)))))
    IN IF t = <<>> THEN <<"unknown">> ELSE t

\* Whether the tagging branch evaluates `"..." in meta`.
ReadsMeta(self) == self.tagging_mode \in {"source_file", "simple"}

\* tagged_text of one surviving document.
TaggedText(self, text, meta) ==
    IF self.tagging_mode = "source_file" /\ "source_file" \in DOMAIN meta.map
    THEN LET clean_tag == CleanTag(meta.map.source_file)
         IN <<"<">> \o clean_tag \o <<">">> \o text \o <<"</">> \o clean_tag \o <<">">>
    ELSE IF self.tagging_mode = "simple" /\ "role" \in DOMAIN meta.map
    THEN <<"<", meta.map.role, ">">> \o text \o <<"</", meta.map.role, ">">>
    ELSE text

\* A faulty threshold: the smaller of the two bars.
ThresholdMin(best_similarity, dynamic_multiplier, min_similarity) ==
    Min(best_similarity \div dynamic_multiplier, min_similarity)

\* threshold = max(best_similarity / dynamic_multiplier, min_similarity)
Threshold(best_similarity, dynamic_multiplier, min_similarity) ==
    Max(best_similarity \div dynamic_multiplier, min_similarity)

SeqMax(s) == CHOOSE x \in {s[i] : i \in 1..Len(s)} : \A j \in 1..Len(s) : s[j] <= x

\* Whether the loop keeps a document (it is neither blank nor below the threshold).
Survives(doc, sim, threshold) == ~(doc = <<>> \/ Strip(doc) = <<>>) /\ ~(sim < threshold)

\* The for loop over zip(docs, similarities, metadatas), `chunks` being
\* tagged_chunks so far: tagged_chunks at the end, or the TypeError of `in`
\* applied to None.
RECURSIVE TagLoop(_, _, _, _, _, _)
TagLoop(self, docs, sims, metas, threshold, chunks) ==
    IF docs = <<>> \/ sims = <<>> \/ metas = <<>> THEN [raised |-> FALSE, chunks |-> chunks]
    ELSE IF ~Survives(docs[1], sims[1], threshold)
    THEN TagLoop(self, Tail(docs), Tail(sims), Tail(metas), threshold, chunks)
    ELSE IF ReadsMeta(self) /\ metas[1].isNone THEN [raised |-> TRUE, chunks |-> <<>>]
    ELSE TagLoop(self, Tail(docs), Tail(sims), Tail(metas), threshold,
                 Append(chunks, [sim |-> sims[1],
                                 text |-> TaggedText(self, Strip(docs[1]), metas[1])]))

\* list.sort(key=lambda x: x[0], reverse=True): stable, by similarity descending.
RECURSIVE InsertDesc(_, _)
InsertDesc(sorted, x) ==
    IF sorted = <<>> THEN <<x>>
    ELSE IF Head(sorted).sim >= x.sim THEN <<Head(sorted)>> \o InsertDesc(Tail(sorted), x)
    ELSE <<x>> \o sorted

\* A faulty sort: ascending.
RECURSIVE SortAsc(_)
SortAsc(s) ==
    IF s = <<>> THEN <<>>
    ELSE LET m == CHOOSE i \in 1..Len(s) : \A j \in 1..Len(s) : s[i].sim <= s[j].sim
         IN <<s[m]>> \o SortAsc(SubSeq(s, 1, m - 1) \o SubSeq(s, m + 1, Len(s)))

\* A faulty sort: descending, but of two equal similarities the later one first.
RECURSIVE InsertBeforeTies(_, _)
InsertBeforeTies(sorted, x) ==
    IF sorted = <<>> THEN <<x>>
    ELSE IF Head(sorted).sim > x.sim THEN <<Head(sorted)>> \o InsertBeforeTies(Tail(sorted), x)
    ELSE <<x>> \o sorted
RECURSIVE SortDescTiesReversed(_)
SortDescTiesReversed(s) ==
    IF s = <<>> THEN <<>>
    ELSE InsertBeforeTies(SortDescTiesReversed(SubSeq(s, 1, Len(s) - 1)), s[Len(s)])

RECURSIVE SortDesc(_)
SortDesc(s) ==
    IF s = <<>> THEN <<>>
    ELSE InsertDesc(SortDesc(SubSeq(s, 1, Len(s) - 1)), s[Len(s)])

\* s[:k]
SliceTo(s, k) ==
    IF k >= 0 THEN SubSeq(s, 1, Min(k, Len(s))) ELSE SubSeq(s, 1, Max(0, Len(s) + k))

NoMessages == [raised |-> FALSE, msgs |-> <<>>, selected |-> <<>>, survivors |-> <<>>]

\* similarities = [1.0 - dist for dist in distances]
Similarities(distances) == [i \in 1..Len(distances) |-> Scale - distances[i]]

\* The block of the selected chunks: one system message, or none.
WrapChunks(outer_tag, selected, survivors) ==
    IF selected = <<>> THEN [NoMessages EXCEPT !.survivors = survivors]
    ELSE [raised |-> FALSE,
          msgs |-> <<[role |-> "system",
                      content |-> <<"<", outer_tag, ">\n">>
                                  \o Join([i \in 1..Len(selected) |-> selected[i].text], <<"\n\n">>)
                                  \o <<"\n</", outer_tag, ">">>]>>,
          selected |-> selected,
          survivors |-> survivors]

\* The sort, the cut to top_k and the wrapping of tagged_chunks (`tagged` is what
\* the loop gave).
SelectAndWrap(self, tagged, top_k, tag) ==
    IF tagged.raised THEN [NoMessages EXCEPT !.raised = TRUE]
    ELSE WrapChunks(IF tag # "" THEN tag ELSE self.collection_name,
                    SliceTo(SortDesc(tagged.chunks), top_k), tagged.chunks)

\* ChromaContextAdapter.build_messages from `docs = results["documents"][0]` on:
\* the message list returned (msgs), the selected (similarity, chunk) pairs behind
\* it, tagged_chunks before the sort (survivors), or raised.
RankResults(self, results, top_k, tag, min_similarity, dynamic_multiplier) ==
    IF results.documents = <<>> THEN NoMessages
    ELSE SelectAndWrap(self,
                       TagLoop(self, results.documents, Similarities(results.distances),
                               results.metadatas,
                               Threshold(SeqMax(Similarities(results.distances)),
                                         dynamic_multiplier, min_similarity),
                               <<>>),
                       top_k, tag)

\* The collaborator's embedding distance between a query and a stored text, in
\* units: a fixed function of the two texts (its values are opaque to the code).
Distance(q, text) ==
    IF \E i \in 1..Len(text) : text[i] = q[1] THEN 4
    ELSE IF \E i \in 1..Len(text) : text[i] = q[Len(q)] THEN 28
    ELSE 36

RECURSIVE InsertByDistance(_, _)
InsertByDistance(sorted, x) ==
    IF sorted = <<>> THEN <<x>>
    ELSE IF Head(sorted).distance <= x.distance
    THEN <<Head(sorted)>> \o InsertByDistance(Tail(sorted), x)
    ELSE <<x>> \o sorted

RECURSIVE NearestFirst(_)
NearestFirst(s) ==
    IF s = <<>> THEN <<>>
    ELSE InsertByDistance(NearestFirst(SubSeq(s, 1, Len(s) - 1)), s[Len(s)])

\* collection.query(query_texts=[q], n_results=n, include=[documents, distances,
\* metadatas]): the n nearest documents of the collection, nearest first.
Query(docs, q, n) ==
    LET scored == [i \in 1..Len(docs) |->
                       [doc |-> docs[i], distance |-> Distance(q, docs[i].text)]]
        hits == SliceTo(NearestFirst(scored), Max(n, 0))
    IN [documents |-> [i \in 1..Len(hits) |-> hits[i].doc.text],
        distances |-> [i \in 1..Len(hits) |-> hits[i].distance],
        metadatas |-> [i \in 1..Len(hits) |-> hits[i].doc.metadata]]

\* client.get_or_create_collection(name): the store with the collection in it.
GetOrCreateCollection(store, name) ==
    [n \in DOMAIN store \cup {name} |-> IF n \in DOMAIN store THEN store[n] ELSE <<>>]

\* The documents of the collection get_collection() returns.
CollectionDocs(store, name) == IF name \in DOMAIN store THEN store[name] ELSE <<>>

\* The query of a collection in `down` raises.
QueryRaises(self, down) == self.collection_name \in down

\* A faulty build_messages: a blank user_request is sent to the collection like
\* any other.
ChromaQueriesAlways(self, user_request) == 1

\* ChromaContextAdapter.build_messages: the number of collection.query calls it
\* makes.
ChromaQueries(self, user_request) == IF Strip(user_request) = <<>> THEN 0 ELSE 1

\* A faulty overfetch: four times top_k, whatever max_overfetch is.
FetchKUncapped(top_k, max_overfetch) == top_k * 4

\* fetch_k = min(top_k * 4, max_overfetch)
FetchK(top_k, max_overfetch) == Min(top_k * 4, max_overfetch)

\* ChromaContextAdapter.build_messages: what it returns, or raised (by the
\* query, or by the tagging loop).
ChromaBuildMessages(self, user_request, top_k, tag, max_overfetch, min_similarity, dynamic_multiplier, store, down) ==
    IF ChromaQueries(self, user_request) = 0 THEN NoMessages
    ELSE IF QueryRaises(self, down) THEN [NoMessages EXCEPT !.raised = TRUE]
    ELSE RankResults(self,
                     Query(CollectionDocs(store, self.collection_name), user_request,
                           FetchK(top_k, max_overfetch)),
                     top_k, tag, min_similarity, dynamic_multiplier)

\* ChromaContextAdapter.build_messages: the store as its get_collection() call
\* leaves it.
ChromaStoreAfter(self, user_request, store) ==
    IF ChromaQueries(self, user_request) = 0 THEN store
    ELSE GetOrCreateCollection(store, self.collection_name)

EpisodicMemoryAdapter == ChromaContextAdapter("episodic", "simple")
SemanticMemoryAdapter == ChromaContextAdapter("semantic", "source_file")
ProceduralMemoryAdapter == ChromaContextAdapter("procedural", "none")

-----------------------------------------------------------------------------
(* adapters.py: the other adapters.                                         *)

TimestampAdapter ==
    [kind |-> "timestamp", requires_user_request |-> FALSE,
     collection_name |-> "", tagging_mode |-> "", arg |-> "", ref |-> 0]

UserRequestAdapter(tag_name) ==
    [kind |-> "user_request", requires_user_request |-> TRUE,
     collection_name |-> "", tagging_mode |-> "", arg |-> tag_name, ref |-> 0]

AssistantPrefixAdapter(prefix) ==
    [kind |-> "assistant_prefix", requires_user_request |-> FALSE,
     collection_name |-> "", tagging_mode |-> "", arg |-> prefix, ref |-> 0]

\* A reference to the MessageCacheAdapter object `ref` of caches.
MessageCacheRef(ref) ==
    [kind |-> "message_cache", requires_user_request |-> FALSE,
     collection_name |-> "", tagging_mode |-> "", arg |-> "", ref |-> ref]

\* datetime.now().strftime("%A, %B %d, %Y at %I:%M %p")
strftime(t) == "D" \o ToString(t)

TimestampPrefix == "<timestamp>The current date and time is: "

\* TimestampAdapter.build_messages
TimestampBuildMessages(now) ==
    <<[role |-> "system", content |-> <<TimestampPrefix, strftime(now), "</timestamp>">>]>>

\* UserRequestAdapter.build_messages
UserRequestBuildMessages(self, user_request) ==
    <<[role |-> "user",
       content |-> <<"<", self.arg, ">">> \o user_request \o <<"</", self.arg, ">">>]>>

\* AssistantPrefixAdapter.build_messages
AssistantPrefixBuildMessages(self) == <<[role |-> "assistant", content |-> <<self.arg>>]>>

\* Whether the adapter's build_messages takes user_request.
TakesUserRequest(a) == a.kind \in {"chroma", "user_request"}

\* adapter.build_messages(user_request=user_request) when `passed`, and
\* adapter.build_messages() otherwise: the messages, or raised (a TypeError of
\* the call, or what the adapter raises).
AdapterBuildMessages(a, passed, user_request, store, cs, now, down) ==
    IF passed # TakesUserRequest(a) THEN [raised |-> TRUE, msgs |-> <<>>]
    ELSE CASE a.kind = "chroma" ->
                [x \in {"raised", "msgs"} |->
                    ChromaBuildMessages(a, user_request, DefaultTopK, "", DefaultMaxOverfetch,
                                        DefaultMinSimilarity, DefaultMultiplier, store, down)[x]]
           [] a.kind = "timestamp" -> [raised |-> FALSE, msgs |-> TimestampBuildMessages(now)]
           [] a.kind = "user_request" ->
                [raised |-> FALSE, msgs |-> UserRequestBuildMessages(a, user_request)]
           [] a.kind = "assistant_prefix" ->
                [raised |-> FALSE, msgs |-> AssistantPrefixBuildMessages(a)]
           [] a.kind = "message_cache" ->
                [raised |-> FALSE, msgs |-> MessageCacheBuildMessages(cs[a.ref])]

\* The number of queries the adapter's build_messages sends to its collection.
AdapterQueries(a, passed, user_request) ==
    IF passed = TakesUserRequest(a) /\ a.kind = "chroma" THEN ChromaQueries(a, user_request) ELSE 0

\* The store after the call of the adapter's build_messages.
AdapterStoreAfter(a, passed, user_request, store) ==
    IF passed = TakesUserRequest(a) /\ a.kind = "chroma"
    THEN ChromaStoreAfter(a, user_request, store)
    ELSE store

-----------------------------------------------------------------------------
(* adapters.py: ContextPipeline.                                            *)

PipelineCacheCapacity == 20     \* MessageCacheAdapter(capacity=20)
AppCache == 1                   \* app.py's module-level message_cache
PipelineCache == 2              \* the cache ContextPipeline.__init__ creates
CacheIds == {AppCache, PipelineCache}

\* ModelInstructions fields, loaded once at construction.
system_message == "SYSTEM_MESSAGE"
assistant_intro == "ASSISTANT_INTRO"
assistant_focus == "ASSISTANT_FOCUS"

Entry(name, adapter) == [name |-> name, adapter |-> adapter]

\* A faulty registry write: a name registered again moves to the end.
OrderedDictSetMoveToEnd(d, name, value) ==
    Append(SelectSeq(d, LAMBDA e : e.name # name), Entry(name, value))

\* OrderedDict.__setitem__: a new key goes last, an existing key keeps its place.
OrderedDictSet(d, name, value) ==
    IF \E i \in 1..Len(d) : d[i].name = name
    THEN [i \in 1..Len(d) |-> IF d[i].name = name THEN Entry(name, value) ELSE d[i]]
    ELSE Append(d, Entry(name, value))

\* The register_adapter calls of ContextPipeline.__init__, in order.
ConstructorRegistrations ==
    <<Entry("timestamp", TimestampAdapter),
      Entry("semantic", SemanticMemoryAdapter),
      Entry("episodic", EpisodicMemoryAdapter),
      Entry("message_cache", MessageCacheRef(PipelineCache)),
      Entry("user_request", UserRequestAdapter("user")),
      Entry("assistant_prefix", AssistantPrefixAdapter("<assistant>"))>>

RECURSIVE RegisterAll(_, _)
RegisterAll(d, entries) ==
    IF entries = <<>> THEN d
    ELSE RegisterAll(OrderedDictSet(d, entries[1].name, entries[1].adapter), Tail(entries))

\* The three fixed messages build_messages starts from.
FixedMessages ==
    <<[role |-> "system", content |-> <<"<system>", system_message, "</system>">>],
      [role |-> "assistant",
       content |-> <<"<assistant_intro>", assistant_intro, "</assistant_intro>">>],
      [role |-> "system", content |-> <<"<focus>", assistant_focus, "</focus>">>]>>

\* The loop over self.adapters.values(), from the adapters `ads` on, `parts`
\* being what the adapters before them gave: per adapter its name, whether it
\* was passed the query, what it returned and the queries it sent; the store
\* afterwards; or raised.
RECURSIVE RunAdapters(_, _, _, _, _, _, _)
RECURSIVE AfterAdapter(_, _, _, _, _, _, _, _)
RunAdapters(ads, user_request, store, cs, now, down, parts) ==
    IF ads = <<>> THEN [raised |-> FALSE, parts |-> parts, store |-> store]
    ELSE AfterAdapter(ads, user_request,
                      AdapterStoreAfter(ads[1].adapter, ads[1].adapter.requires_user_request,
                                        user_request, store),
                      cs, now, down, parts,
                      AdapterBuildMessages(ads[1].adapter, ads[1].adapter.requires_user_request,
                                           user_request, store, cs, now, down))

\* The rest of the loop once the first adapter of `ads` returned or raised (r).
AfterAdapter(ads, user_request, store, cs, now, down, parts, r) ==
    IF r.raised THEN [raised |-> TRUE, parts |-> <<>>, store |-> store]
    ELSE RunAdapters(Tail(ads), user_request, store, cs, now, down,
                     Append(parts, [name |-> ads[1].name,
                                    passed |-> ads[1].adapter.requires_user_request,
                                    msgs |-> r.msgs,
                                    queries |-> AdapterQueries(ads[1].adapter,
                                                               ads[1].adapter.requires_user_request,
                                                               user_request)]))

RECURSIVE Flatten(_)
Flatten(parts) == IF parts = <<>> THEN <<>> ELSE parts[1].msgs \o Flatten(Tail(parts))

\* A faulty assembly: the adapters' messages come before the fixed ones.
AssembleFixedLast(parts) == Flatten(parts) \o FixedMessages

\* messages = [the three fixed messages]; messages.extend(msgs) per adapter.
Assemble(parts) == FixedMessages \o Flatten(parts)

\* What build_messages returns once the loop is over (run).
Returned(run) ==
    [raised |-> run.raised,
     msgs |-> IF run.raised THEN <<>> ELSE Assemble(run.parts),
     parts |-> run.parts,
     store |-> run.store]

\* ContextPipeline.build_messages, the queries of the collections in `down`
\* raising.
PipelineBuildMessages(ads, user_request, store, cs, now, down) ==
    Returned(RunAdapters(ads, user_request, store, cs, now, down, <<>>))

-----------------------------------------------------------------------------
(* context.py: ChromaMemoryStore.store_turn and store_batch.                *)

collection_episodic == "episodic"

\* A faulty document id: the message suffix is left out.
DocIdNoSuffix(turn, suffix) == ToString(turn.uuid)

\* doc_id = f"{turn.uuid}_{suffix}"
DocId(turn, suffix) == ToString(turn.uuid) \o "_" \o suffix

\* The document of one message of a turn: its id, text and metadata.
TurnDocument(conversation_id, turn, suffix) ==
    LET msg == IF suffix = "req" THEN turn.request ELSE turn.response
    IN [id |-> DocId(turn, suffix),
        text |-> to_memory_string(msg),
        metadata |-> Mapping([conversation_id |-> conversation_id,
                              turn_uuid |-> ToString(turn.uuid),
                              message_type |-> suffix,
                              role |-> msg.role,
                              speaker |-> msg.speaker,
                              timestamp |-> msg.timestamp])]

\* The loop over turns and ("req", "res"): docs, ids and metadatas, as one list.
RECURSIVE TurnDocuments(_, _)
TurnDocuments(conversation_id, turns) ==
    IF turns = <<>> THEN <<>>
    ELSE <<TurnDocument(conversation_id, turns[1], "req"),
           TurnDocument(conversation_id, turns[1], "res")>>
         \o TurnDocuments(conversation_id, Tail(turns))

\* The audit record of a document (json_records).
JsonRecord(doc) ==
    [id |-> doc.id, text |-> doc.text, metadata |-> doc.metadata.map,
     conversation_id |-> doc.metadata.map.conversation_id,
     turn_uuid |-> doc.metadata.map.turn_uuid,
     message_type |-> doc.metadata.map.message_type,
     role |-> doc.metadata.map.role,
     speaker |-> doc.metadata.map.speaker,
     timestamp |-> doc.metadata.map.timestamp]

\* create_batches: the number of batches of at most max_batch_size documents.
BatchCount(n, max_batch_size) == (n + max_batch_size - 1) \div max_batch_size

\* The documents of the first k batches.
FirstBatches(docs, k, max_batch_size) == SubSeq(docs, 1, Min(Len(docs), k * max_batch_size))

NoStoreCall ==
    [called |-> FALSE, single |-> FALSE, turns |-> <<>>, path |-> FALSE, collection |-> "",
     raised |-> "none", docsBefore |-> 0, linesBefore |-> 0]

\* A faulty store_batch: the audit records are appended although a
\* collection.add raised.
ReachesAppendAnyway(storeFails, path, json_records) == path /\ json_records # <<>>

\* Whether store_batch reaches the append to the audit file: no collection.add
\* raised, and `if json_export_path and json_records`.
ReachesAppend(storeFails, path, json_records) == ~storeFails /\ path /\ json_records # <<>>

\* ChromaMemoryStore.store_batch.  json_export_path is given or None (path);
\* storeFailAt = k > 0 makes the k-th collection.add raise, auditFailAt = j > 0
\* makes the append of the j-th record raise.  The store and the audit file
\* afterwards, and how the call ended.
StoreBatch(store, file, conversation_id, turns, collection_name, path, max_batch_size, storeFailAt, auditFailAt) ==
    LET store2 == GetOrCreateCollection(store, collection_name)
        docs == TurnDocuments(conversation_id, turns)
        json_records == [i \in 1..Len(docs) |-> JsonRecord(docs[i])]
        nBatches == BatchCount(Len(docs), max_batch_size)
        storeFails == docs # <<>> /\ storeFailAt \in 1..nBatches
        written == IF storeFails THEN FirstBatches(docs, storeFailAt - 1, max_batch_size) ELSE docs
        store3 == [store2 EXCEPT ![collection_name] = @ \o written]
        appends == ReachesAppend(storeFails, path, json_records)
        auditFails == appends /\ auditFailAt \in 1..Len(json_records)
        lines == IF ~appends THEN <<>>
                 ELSE IF auditFails THEN SubSeq(json_records, 1, auditFailAt - 1)
                 ELSE json_records
    IN [store |-> store3,
        file |-> file \o lines,
        raised |-> IF storeFails THEN "store" ELSE IF auditFails THEN "audit" ELSE "none"]

\* ChromaMemoryStore.store_turn
StoreTurn(store, file, conversation_id, turn, collection_name, path, max_batch_size, storeFailAt, auditFailAt) ==
    StoreBatch(store, file, conversation_id, <<turn>>, collection_name, path, max_batch_size, storeFailAt, auditFailAt)

-----------------------------------------------------------------------------
(* The state machine.                                                       *)

AppCacheCapacity == 20          \* app.py: MessageCacheAdapter(capacity=20)
conversation_id == "12345"
MaxBatchTurns == 2              \* turns in one store_batch call, 0..MaxBatchTurns

Responses == {<<"o", "k">>}
Queries == {<<"h", "i">>, <<"y", "o">>, <<" ">>, <<>>}
\* Request contents of the turns stored and cached beside the pipeline.
PipelineContents == {<<"h", "i">>}

\* No build_messages result is held.  `before` holds the result of the
\* build_messages call before the last one when that call had the same
\* user_request and nothing was added, registered or stored between the two.
NoCall ==
    [op |-> "none", q |-> <<>>, raised |-> FALSE, msgs |-> <<>>, parts |-> <<>>,
     before |-> <<>>]

\* No call of app.py's or tui.py's code was made.
NoAppCall ==
    [via |-> "none", input |-> <<>>, status |-> "none", raisedBy |-> "none", http |-> "",
     builds |-> 0, completions |-> 0, stores |-> 0, adds |-> 0,
     completed |-> FALSE, turn |-> <<>>, value |-> <<>>,
     docsBefore |-> 0, linesBefore |-> 0, cachesBefore |-> <<>>]

\* No FileHandler call was made; no regular file exists.
NoFileCall ==
    [files |-> {}, calls |-> 0, op |-> "none", filename |-> <<>>, raised |-> "none",
     status |-> "", resolved |-> <<>>, touched |-> {}]

\* No thread runs on a cache, no thread appends to an audit file, no tool loop
\* runs, chunk_text was not called and the YAML store was not constructed.
NoThreads == [pc |-> "none"]
NoWriters == [pc |-> "none"]
NoToolLoop == [pc |-> "none"]
NoChunking == [pc |-> "none"]
NoYaml == [pc |-> "none"]

NoRankInput ==
    [documents |-> <<>>, distances |-> <<>>, metadatas |-> <<>>,
     min_similarity |-> 0, dynamic_multiplier |-> 1]

NoRankOutput ==
    [done |-> FALSE, tagging_mode |-> "none", top_k |-> 0, raised |-> FALSE, msgs |-> <<>>,
     selected |-> <<>>, survivors |-> <<>>]

\* The state after the module-level construction of app.py, with a cache of
\* capacity n as the stand-alone cache object.
Constructed(n) ==
    /\ caches = [c \in CacheIds |->
                    MessageCacheAdapter(IF c = AppCache THEN n ELSE PipelineCacheCapacity)]
    /\ added = [c \in CacheIds |-> <<>>]
    /\ adapters = RegisterAll(<<>>, ConstructorRegistrations)
    /\ regLog = ConstructorRegistrations
    /\ chroma = [n2 \in {} |-> <<>>]
    /\ audit = <<>>
    /\ clock = 0
    /\ nextTurn = 1
    /\ out = NoCall
    /\ sres = NoStoreCall
    /\ rin = NoRankInput
    /\ rout = NoRankOutput
    /\ pt = NoAppCall
    /\ fh = NoFileCall
    /\ th = NoThreads /\ aw = NoWriters /\ iso = NoToolLoop /\ ck = NoChunking /\ ym = NoYaml

\* cache.add_turn(turn) on cache object c, with a fresh turn.
AddTurn(c, user_message, response) ==
    LET turn == MakeTurn(nextTurn, conversation_id, user_message, response, clock)
    IN /\ caches' = [caches EXCEPT ![c] = CacheAddTurn(@, turn)]
       /\ added' = [added EXCEPT ![c] = Append(@, turn)]
       /\ nextTurn' = nextTurn + 1
       /\ out' = NoCall
       /\ UNCHANGED <<adapters, regLog, chroma, audit, clock, sres, rin, rout, pt, fh, th, aw, iso, ck, ym>>

\* cache.build_messages() on the stand-alone cache object.
CacheBuild ==
    /\ out' = [op |-> "cache", q |-> <<>>, raised |-> FALSE,
               msgs |-> MessageCacheBuildMessages(caches[AppCache]), parts |-> <<>>,
               before |-> <<>>]
    /\ UNCHANGED <<caches, added, adapters, regLog, chroma, audit, clock, nextTurn, sres, rin, rout, pt, fh, th, aw, iso, ck, ym>>

CacheAddTurnStep ==
    /\ Len(added[AppCache]) < MaxAdds
    /\ \E user_message \in Contents, response \in Responses :
           AddTurn(AppCache, user_message, response)

\* The stand-alone MessageCacheAdapter, for every capacity.
InitCache == \E n \in 0..MaxCapacity : Constructed(n)
NextCache == CacheAddTurnStep \/ CacheBuild
SpecCache == InitCache /\ [][NextCache]_vars

-----------------------------------------------------------------------------
(* The pipeline, its caches and the fault-free store.                       *)

RegNames == {"timestamp", "procedural"}
RegAdapters == {TimestampAdapter, ProceduralMemoryAdapter}

\* ContextPipeline.register_adapter
RegisterAdapter(name, adapter) ==
    /\ Len(regLog) < Len(ConstructorRegistrations) + MaxRegs
    /\ adapters' = OrderedDictSet(adapters, name, adapter)
    /\ regLog' = Append(regLog, Entry(name, adapter))
    /\ out' = NoCall
    /\ UNCHANGED <<caches, added, chroma, audit, clock, nextTurn, sres, rin, rout, pt, fh, th, aw, iso, ck, ym>>

\* The state after a build_messages(user_request) call that gave r.
AfterBuild(user_request, r) ==
    /\ out' = [op |-> "pipeline", q |-> user_request, raised |-> r.raised,
               msgs |-> r.msgs, parts |-> r.parts,
               before |-> IF out.op = "pipeline" /\ out.q = user_request
                          THEN <<[q |-> out.q, raised |-> out.raised, msgs |-> out.msgs]>>
                          ELSE <<>>]
    /\ chroma' = r.store
    /\ UNCHANGED <<added, adapters, regLog, audit, clock, nextTurn, sres, rin, rout, pt, fh, th, aw, iso, ck, ym>>

\* A faulty build_messages: the cache adapters consume the turns they read.
BuildMessagesDraining(user_request) ==
    /\ AfterBuild(user_request, PipelineBuildMessages(adapters, user_request, chroma, caches, clock, {}))
    /\ caches' = [c \in CacheIds |-> [caches[c] EXCEPT !.cache = <<>>]]

\* ContextPipeline.build_messages(user_request)
BuildMessages(user_request) ==
    /\ AfterBuild(user_request, PipelineBuildMessages(adapters, user_request, chroma, caches, clock, {}))
    /\ UNCHANGED caches

\* The clock advances.
Tick ==
    /\ clock < MaxClock
    /\ clock' = clock + 1
    /\ UNCHANGED <<caches, added, adapters, regLog, chroma, audit, nextTurn, out, sres, rin, rout, pt, fh, th, aw, iso, ck, ym>>

\* The n turns with uuids first, first + 1, ... and the given request contents.
FreshTurns(first, user_messages) ==
    [i \in 1..Len(user_messages) |->
        MakeTurn(first + i - 1, conversation_id, user_messages[i], <<"o", "k">>, clock)]

\* A store_turn (single) or store_batch call with fresh turns.
StoreCall(single, user_messages, path, max_batch_size, storeFailAt, auditFailAt) ==
    LET turns == FreshTurns(nextTurn, user_messages)
        r == IF single
             THEN StoreTurn(chroma, audit, conversation_id, turns[1], collection_episodic, path, max_batch_size, storeFailAt, auditFailAt)
             ELSE StoreBatch(chroma, audit, conversation_id, turns, collection_episodic, path, max_batch_size, storeFailAt, auditFailAt)
    IN /\ nextTurn + Len(user_messages) - 1 <= MaxTurns
       /\ chroma' = r.store
       /\ audit' = r.file
       /\ nextTurn' = nextTurn + Len(user_messages)
       /\ sres' = [called |-> TRUE, single |-> single, turns |-> turns, path |-> path,
                   collection |-> collection_episodic, raised |-> r.raised,
                   docsBefore |-> IF collection_episodic \in DOMAIN chroma
                                  THEN Len(chroma[collection_episodic]) ELSE 0,
                   linesBefore |-> Len(audit)]
       /\ out' = NoCall
       /\ UNCHANGED <<caches, added, adapters, regLog, clock, rin, rout, pt, fh, th, aw, iso, ck, ym>>

RegisterStep == \E name \in RegNames, adapter \in RegAdapters : RegisterAdapter(name, adapter)
BuildStep == \E q \in Queries : BuildMessages(q)
AddTurnStep ==
    /\ nextTurn <= MaxTurns
    /\ \E user_message \in PipelineContents, response \in Responses :
           AddTurn(PipelineCache, user_message, response)

\* process_turn's store_turn call, with json_export_path, all going well.
StoreTurnOk ==
    \E user_message \in PipelineContents, max_batch_size \in 1..MaxBatchSize :
        StoreCall(TRUE, <<user_message>>, TRUE, max_batch_size, 0, 0)

Init == Constructed(AppCacheCapacity)

\* A pipeline whose recency adapter is a MessageCacheAdapter of any capacity:
\* pipeline.register_adapter("message_cache", cache) with the stand-alone cache
\* object, turns added to that cache, turns stored, adapters registered, and
\* build_messages.
RegisterCacheStep == RegisterAdapter("message_cache", MessageCacheRef(AppCache))
SmallCacheAddTurnStep ==
    /\ Len(added[AppCache]) < MaxAdds
    /\ \E user_message \in PipelineContents, response \in Responses :
           AddTurn(AppCache, user_message, response)
InitSmallCache == \E n \in 0..MaxCapacity : Constructed(n)
NextSmallCache == RegisterCacheStep \/ RegisterStep \/ SmallCacheAddTurnStep \/ StoreTurnOk \/ BuildStep
SpecSmallCache == InitSmallCache /\ [][NextSmallCache]_vars

Next == RegisterStep \/ BuildStep \/ AddTurnStep \/ StoreTurnOk \/ Tick
Spec == Init /\ [][Next]_vars

-----------------------------------------------------------------------------
(* Turn persistence with its faults.                                        *)

\* Lists of at most n request contents.
ContentLists(n) == UNION {[1..k -> PipelineContents] : k \in 0..n}

\* The append of the audit records is reached only when no collection.add raised.
AuditFaults(storeFailAt, n) == IF storeFailAt = 0 THEN 0..n ELSE {0}

StoreTurnStep ==
    \E user_message \in PipelineContents, path \in BOOLEAN, max_batch_size \in 1..MaxBatchSize,
       storeFailAt \in 0..2 :
      \E auditFailAt \in AuditFaults(storeFailAt, 2) :
        StoreCall(TRUE, <<user_message>>, path, max_batch_size, storeFailAt, auditFailAt)

StoreBatchStep ==
    \E user_messages \in ContentLists(MaxBatchTurns), path \in BOOLEAN,
       max_batch_size \in 1..MaxBatchSize, storeFailAt \in 0..(2 * MaxBatchTurns) :
      \E auditFailAt \in AuditFaults(storeFailAt, 2 * MaxBatchTurns) :
        StoreCall(FALSE, user_messages, path, max_batch_size, storeFailAt, auditFailAt)

NextStore == StoreTurnStep \/ StoreBatchStep \/ Tick
SpecStore == Init /\ [][NextStore]_vars

-----------------------------------------------------------------------------
(* The ranking code on every fetched result.                                *)

FetchTexts == {<<" ">>, <<"a">>, <<" ", "b">>}
FetchDistances == {4, 28, 36}
FetchMetas == {NoneMeta, Mapping([source_file |-> <<"n", ".", "t">>]), Mapping([role |-> "user"])}
FetchedDocs == [text : FetchTexts, distance : FetchDistances]
TaggingModes == {"source_file", "simple", "none"}
Multipliers == {2, 4}

\* Fetched results of at most MaxDocs documents, the documents of one result
\* carrying the same kind of metadata.
RankInputs ==
    {[documents |-> [i \in 1..Len(f) |-> f[i].text],
      distances |-> [i \in 1..Len(f) |-> f[i].distance],
      metadatas |-> [i \in 1..Len(f) |-> meta],
      min_similarity |-> DefaultMinSimilarity, dynamic_multiplier |-> m] :
        m \in Multipliers, meta \in FetchMetas,
        f \in UNION {[1..n -> FetchedDocs] : n \in 0..MaxDocs}}

\* The ranking code of an adapter with the given tagging mode runs on the
\* fetched result rin.
Rank(tagging_mode, top_k) ==
    LET self == ChromaContextAdapter("semantic", tagging_mode)
        r == RankResults(self, rin, top_k, "", rin.min_similarity, rin.dynamic_multiplier)
    IN /\ ~rout.done
       /\ rout' = [done |-> TRUE, tagging_mode |-> tagging_mode, top_k |-> top_k,
                   raised |-> r.raised, msgs |-> r.msgs,
                   selected |-> r.selected, survivors |-> r.survivors]
       /\ UNCHANGED <<caches, added, adapters, regLog, chroma, audit, clock, nextTurn, out, sres, rin, pt, fh, th, aw, iso, ck, ym>>

RankStep == \E tagging_mode \in TaggingModes, top_k \in 0..MaxTopK : Rank(tagging_mode, top_k)

InitRank ==
    /\ caches = [c \in CacheIds |-> MessageCacheAdapter(PipelineCacheCapacity)]
    /\ added = [c \in CacheIds |-> <<>>]
    /\ adapters = RegisterAll(<<>>, ConstructorRegistrations)
    /\ regLog = ConstructorRegistrations
    /\ chroma = [n2 \in {} |-> <<>>]
    /\ audit = <<>>
    /\ clock = 0
    /\ nextTurn = 1
    /\ out = NoCall
    /\ sres = NoStoreCall
    /\ rin \in RankInputs
    /\ rout = NoRankOutput
    /\ pt = NoAppCall
    /\ fh = NoFileCall
    /\ th = NoThreads /\ aw = NoWriters /\ iso = NoToolLoop /\ ck = NoChunking /\ ym = NoYaml
NextRank == RankStep
SpecRank == InitRank /\ [][NextRank]_vars

-----------------------------------------------------------------------------
(* The source-file tagging of one fetched document, for file names of at    *)
(* most MaxNameLen characters and the file name of the documentation.       *)

MaxNameLen == 3
NameChars == {"a", "B", "2", ".", "-", "_", " "}
DocumentedName == <<"M", "y", " ", "N", "o", "t", "e", "s", " ", "v", "2", ".", "t", "x", "t">>
FileNames == UNION {[1..n -> NameChars] : n \in 0..MaxNameLen} \cup {DocumentedName}

\* Fetched results of one document whose metadata names its source file.
TagInputs ==
    {[documents |-> << <<"a">> >>, distances |-> <<4>>,
      metadatas |-> <<Mapping([source_file |-> name])>>,
      min_similarity |-> DefaultMinSimilarity, dynamic_multiplier |-> DefaultMultiplier] :
        name \in FileNames}

TagStep == Rank("source_file", DefaultTopK)

InitTag ==
    /\ caches = [c \in CacheIds |-> MessageCacheAdapter(PipelineCacheCapacity)]
    /\ added = [c \in CacheIds |-> <<>>]
    /\ adapters = RegisterAll(<<>>, ConstructorRegistrations)
    /\ regLog = ConstructorRegistrations
    /\ chroma = [n2 \in {} |-> <<>>]
    /\ audit = <<>>
    /\ clock = 0
    /\ nextTurn = 1
    /\ out = NoCall
    /\ sres = NoStoreCall
    /\ rin \in TagInputs
    /\ rout = NoRankOutput
    /\ pt = NoAppCall
    /\ fh = NoFileCall
    /\ th = NoThreads /\ aw = NoWriters /\ iso = NoToolLoop /\ ck = NoChunking /\ ym = NoYaml
NextTag == TagStep
SpecTag == InitTag /\ [][NextTag]_vars

-----------------------------------------------------------------------------
(* files_handler.py: FileHandler over a POSIX file system. Paths are         *)
(* sequences of characters.                                                 *)

\* os.getcwd() and the directories that exist: the root, the working
\* directory, the sandbox directory ./w (os.makedirs in __init__) and its
\* sibling ./wx.
Cwd == <<"/", "c">>
base_dir == <<".", "/", "w">>
Dirs == {<<"/">>, <<"/", "c">>, <<"/", "c", "/", "w">>, <<"/", "c", "/", "w", "x">>}

\* os.path.isabs and os.path.join(a, b) of posixpath.
IsAbs(path) == path # <<>> /\ path[1] = "/"
PathJoin(a, b) ==
    IF IsAbs(b) THEN b
    ELSE IF a = <<>> \/ a[Len(a)] = "/" THEN a \o b
    ELSE a \o <<"/">> \o b

\* path.split('/'), `comps` being the components so far and `cur` the one
\* being read.
RECURSIVE Split(_, _, _)
Split(path, comps, cur) ==
    IF path = <<>> THEN Append(comps, cur)
    ELSE IF Head(path) = "/" THEN Split(Tail(path), Append(comps, cur), <<>>)
    ELSE Split(Tail(path), comps, Append(cur, Head(path)))

\* The loop of posixpath.normpath over the components.
RECURSIVE NormComps(_, _, _)
NormComps(comps, initial_slashes, new_comps) ==
    IF comps = <<>> THEN new_comps
    ELSE IF Head(comps) \in {<<>>, <<".">>} THEN NormComps(Tail(comps), initial_slashes, new_comps)
    ELSE IF \/ Head(comps) # <<".", ".">>
            \/ (initial_slashes = 0 /\ new_comps = <<>>)
            \/ (new_comps # <<>> /\ new_comps[Len(new_comps)] = <<".", ".">>)
    THEN NormComps(Tail(comps), initial_slashes, Append(new_comps, Head(comps)))
    ELSE IF new_comps # <<>>
    THEN NormComps(Tail(comps), initial_slashes, SubSeq(new_comps, 1, Len(new_comps) - 1))
    ELSE NormComps(Tail(comps), initial_slashes, new_comps)

\* The number of leading slashes normpath keeps: two when the path starts with
\* exactly two.
InitialSlashes(path) ==
    IF ~IsAbs(path) THEN 0
    ELSE IF Len(path) >= 2 /\ path[2] = "/" /\ ~(Len(path) >= 3 /\ path[3] = "/") THEN 2
    ELSE 1

\* posixpath.normpath
NormPath(path) ==
    IF path = <<>> THEN <<".">>
    ELSE LET normed == [i \in 1..InitialSlashes(path) |-> "/"]
                       \o Join(NormComps(Split(path, <<>>, <<>>), InitialSlashes(path), <<>>), <<"/">>)
         IN IF normed = <<>> THEN <<".">> ELSE normed

\* os.path.abspath
AbsPath(path) == NormPath(IF IsAbs(path) THEN path ELSE PathJoin(Cwd, path))

\* str.startswith
StartsWith(s, prefix) == Len(prefix) <= Len(s) /\ SubSeq(s, 1, Len(prefix)) = prefix

\* FileHandler._resolve_path(filename): the path returned, or ValueError.
ResolvePath(filename) ==
    LET filepath == AbsPath(PathJoin(base_dir, filename))
    IN [raised |-> ~StartsWith(filepath, AbsPath(base_dir)), filepath |-> filepath]

\* os.path.exists, and the directory open() needs to exist.
Exists(files, path) == path \in files \cup Dirs
RECURSIVE DirName(_)
DirName(path) ==
    IF path = <<>> THEN <<>>
    ELSE IF path[Len(path)] = "/" THEN (IF Len(path) = 1 THEN path ELSE SubSeq(path, 1, Len(path) - 1))
    ELSE DirName(SubSeq(path, 1, Len(path) - 1))

\* The record of one FileHandler call.
FileCall(op, filename, raised, status, resolved, touched, files) ==
    [files |-> files, calls |-> fh.calls + 1, op |-> op, filename |-> filename, raised |-> raised,
     status |-> status, resolved |-> resolved, touched |-> touched]

\* A call that ends in _resolve_path's ValueError.
Escapes(op, filename) == FileCall(op, filename, "ValueError", "", <<>>, {}, fh.files)

\* open(filepath, "w") and the write: the error it raises, or the file written.
OpenWrite(op, filename, filepath, status) ==
    IF filepath \in Dirs THEN FileCall(op, filename, "IsADirectoryError", "", filepath, {}, fh.files)
    ELSE IF DirName(filepath) \notin Dirs
    THEN FileCall(op, filename, "FileNotFoundError", "", filepath, {}, fh.files)
    ELSE FileCall(op, filename, "none", status, filepath, {filepath}, fh.files \cup {filepath})

\* FileHandler.create_file({"filename": filename, "content": ...})
CreateFileAt(filename, r) ==
    IF r.raised THEN Escapes("create_file", filename)
    ELSE IF Exists(fh.files, r.filepath)
    THEN FileCall("create_file", filename, "none", "error", r.filepath, {}, fh.files)
    ELSE OpenWrite("create_file", filename, r.filepath, "file_created")

\* FileHandler.read_file({"filename": filename})
ReadFileAt(filename, r) ==
    IF r.raised THEN Escapes("read_file", filename)
    ELSE IF ~Exists(fh.files, r.filepath) \/ r.filepath \in Dirs
    THEN FileCall("read_file", filename, "none", "error", r.filepath, {}, fh.files)
    ELSE FileCall("read_file", filename, "none", "success", r.filepath, {r.filepath}, fh.files)

\* FileHandler.edit_file({"filename": filename, "new_content": ...})
EditFileAt(filename, r) ==
    IF r.raised THEN Escapes("edit_file", filename)
    ELSE IF ~Exists(fh.files, r.filepath)
    THEN FileCall("edit_file", filename, "none", "error", r.filepath, {}, fh.files)
    ELSE OpenWrite("edit_file", filename, r.filepath, "file_updated")

\* FileHandler.delete_file({"filename": filename}); os.remove of a directory
\* raises.
DeleteFileAt(filename, r) ==
    IF r.raised THEN Escapes("delete_file", filename)
    ELSE IF ~Exists(fh.files, r.filepath)
    THEN FileCall("delete_file", filename, "none", "error", r.filepath, {}, fh.files)
    ELSE IF r.filepath \in Dirs
    THEN FileCall("delete_file", filename, "IsADirectoryError", "", r.filepath, {}, fh.files)
    ELSE FileCall("delete_file", filename, "none", "file_deleted", r.filepath, {r.filepath},
                  fh.files \ {r.filepath})

\* File names of at most MaxParts components, and at most MaxFileCalls calls.
MaxParts == 3
MaxFileCalls == 2
NameParts == {<<>>, <<".">>, <<".", ".">>, <<"w">>, <<"w", "x">>, <<"x">>}
HandlerFileNames == {Join(parts, <<"/">>) : parts \in UNION {[1..n -> NameParts] : n \in 0..MaxParts}}

FileStep(call) ==
    /\ fh.calls < MaxFileCalls
    /\ fh' = call
    /\ UNCHANGED <<caches, added, adapters, regLog, chroma, audit, clock, nextTurn, out, sres, rin, rout, pt, th, aw, iso, ck, ym>>

CreateFile == \E filename \in HandlerFileNames : FileStep(CreateFileAt(filename, ResolvePath(filename)))
ReadFile == \E filename \in HandlerFileNames : FileStep(ReadFileAt(filename, ResolvePath(filename)))
EditFile == \E filename \in HandlerFileNames : FileStep(EditFileAt(filename, ResolvePath(filename)))
DeleteFile == \E filename \in HandlerFileNames : FileStep(DeleteFileAt(filename, ResolvePath(filename)))

\* The files that exist when the handler is constructed: none, or one in the
\* sibling directory.
InitialFiles == {{}, {<<"/", "c", "/", "w", "x", "/", "x">>}}

InitFiles ==
    /\ caches = [c \in CacheIds |-> MessageCacheAdapter(PipelineCacheCapacity)]
    /\ added = [c \in CacheIds |-> <<>>]
    /\ adapters = RegisterAll(<<>>, ConstructorRegistrations)
    /\ regLog = ConstructorRegistrations
    /\ chroma = [n2 \in {} |-> <<>>]
    /\ audit = <<>>
    /\ clock = 0
    /\ nextTurn = 1
    /\ out = NoCall
    /\ sres = NoStoreCall
    /\ rin = NoRankInput
    /\ rout = NoRankOutput
    /\ pt = NoAppCall
    /\ \E files \in InitialFiles : fh = [NoFileCall EXCEPT !.files = files]
    /\ th = NoThreads /\ aw = NoWriters /\ iso = NoToolLoop /\ ck = NoChunking /\ ym = NoYaml
NextFiles == CreateFile \/ ReadFile \/ EditFile \/ DeleteFile
SpecFiles == InitFiles /\ [][NextFiles]_vars

-----------------------------------------------------------------------------
(* adapters.py: one thread in MessageCacheAdapter.build_messages and        *)
(* another in add_turn on the same object. A thread switch can happen        *)
(* between any two statements of build_messages; deque.append and a step of *)
(* the deque's iterator are atomic.                                         *)

MaxThreadAdds == 3

\* The threads before the reader's call: `state` counts the mutations of the
\* deque (the deque's own state counter), `it` is the reader's iterator,
\* `seen` the contents the deque had from the reader's call on.
ThreadsReady ==
    [pc |-> "ready", state |-> 0, it |-> [state |-> 0, index |-> 0, counter |-> 0],
     history_lines |-> <<>>, result |-> <<>>, adds |-> 0, seen |-> <<>>]

ThreadStep(next) ==
    /\ th' = next
    /\ UNCHANGED <<caches, added, adapters, regLog, chroma, audit, clock, nextTurn, out, sres, rin, rout, pt, fh, aw, iso, ck, ym>>

\* if not self.cache: return []
ReaderCheck ==
    /\ th.pc = "ready"
    /\ ThreadStep([th EXCEPT !.pc = IF caches[AppCache].cache = <<>> THEN "done" ELSE "iter",
                             !.seen = <<caches[AppCache].cache>>])

\* history_lines = []; iter(self.cache)
ReaderIter ==
    /\ th.pc = "iter"
    /\ ThreadStep([th EXCEPT !.pc = "next",
                             !.it = [state |-> th.state, index |-> 1,
                                     counter |-> Len(caches[AppCache].cache)]])

\* One step of `for turn in self.cache` with its body: the iterator raises
\* RuntimeError when the deque was mutated since iter(), ends the loop when it
\* has given every element, and gives the next turn otherwise.
ReaderNext ==
    /\ th.pc = "next"
    /\ ThreadStep(IF th.it.state # th.state THEN [th EXCEPT !.pc = "raised"]
                  ELSE IF th.it.counter = 0 THEN [th EXCEPT !.pc = "join"]
                  ELSE [th EXCEPT !.it.index = @ + 1,
                                  !.it.counter = @ - 1,
                                  !.history_lines =
                                      @ \o <<to_memory_string(caches[AppCache].cache[th.it.index].request),
                                             to_memory_string(caches[AppCache].cache[th.it.index].response)>>])

\* content = ...; return [{"role": "system", "content": content}]
ReaderJoin ==
    /\ th.pc = "join"
    /\ ThreadStep([th EXCEPT !.pc = "done",
                             !.result = <<[role |-> "system",
                                           content |-> <<"<chat_history>\n">>
                                                       \o Join(th.history_lines, <<"\n">>)
                                                       \o <<"\n</chat_history>">>]>>])

\* The other thread's add_turn(turn).
WriterAddTurn ==
    /\ th.pc # "none"
    /\ th.adds < MaxThreadAdds
    /\ \E user_message \in Contents :
          LET turn == MakeTurn(nextTurn, conversation_id, user_message, <<"o", "k">>, clock)
              after == CacheAddTurn(caches[AppCache], turn)
          IN /\ caches' = [caches EXCEPT ![AppCache] = after]
             /\ added' = [added EXCEPT ![AppCache] = Append(@, turn)]
             /\ nextTurn' = nextTurn + 1
             /\ th' = [th EXCEPT !.adds = @ + 1,
                                 !.state = @ + 1,
                                 !.seen = IF th.pc \in {"iter", "next", "join"}
                                          THEN Append(@, after.cache) ELSE @]
    /\ UNCHANGED <<adapters, regLog, chroma, audit, clock, out, sres, rin, rout, pt, fh, aw, iso, ck, ym>>

InitThreads ==
    /\ caches = [c \in CacheIds |-> MessageCacheAdapter(PipelineCacheCapacity)]
    /\ added = [c \in CacheIds |-> <<>>]
    /\ adapters = RegisterAll(<<>>, ConstructorRegistrations)
    /\ regLog = ConstructorRegistrations
    /\ chroma = [n2 \in {} |-> <<>>]
    /\ audit = <<>>
    /\ clock = 0
    /\ nextTurn = 1
    /\ out = NoCall
    /\ sres = NoStoreCall
    /\ rin = NoRankInput
    /\ rout = NoRankOutput
    /\ pt = NoAppCall
    /\ fh = NoFileCall
    /\ th = ThreadsReady
    /\ aw = NoWriters /\ iso = NoToolLoop /\ ck = NoChunking /\ ym = NoYaml
NextThreads == ReaderCheck \/ ReaderIter \/ ReaderNext \/ ReaderJoin \/ WriterAddTurn
SpecThreads == InitThreads /\ [][NextThreads]_vars

-----------------------------------------------------------------------------
(* iso.py: IsoClient.generate_response_with_tools, on an IsoClient whose    *)
(* stores work. The completion collaborator gives any response, or fails.   *)

MaxRounds == 2                  \* completion calls in one run

\* tool_call.function: its name and its arguments string, as what json.loads
\* makes of it (json: whether it parses; args: the object it parses to).
Function(name, json, args) == [name |-> name, json |-> json, args |-> args]
Functions ==
    {Function("add_fact", TRUE, [subject |-> "s", predicate |-> "p", object |-> "o"]),
     Function("add_fact", TRUE, [subject |-> "s"]),
     Function("create_todo", TRUE, [description |-> "d"]),
     Function("create_todo", TRUE, [title |-> "d"]),
     Function("list_active_todos", TRUE, [none |-> "none"]),
     Function("search_web", TRUE, [q |-> "d"]),
     Function("list_active_todos", FALSE, [none |-> "none"])}

\* The functions of the tool calls one response carries: none, any one, and
\* lists that mix registered, repeated, unregistered and failing calls.
FunctionLists ==
    {<<>>} \cup {<<f>> : f \in Functions} \cup
    {<<Function("add_fact", TRUE, [subject |-> "s", predicate |-> "p", object |-> "o"]),
       Function("search_web", TRUE, [q |-> "d"])>>,
     <<Function("create_todo", TRUE, [description |-> "d"]),
       Function("create_todo", TRUE, [description |-> "d"])>>,
     <<Function("list_active_todos", TRUE, [none |-> "none"]),
       Function("list_active_todos", FALSE, [none |-> "none"]),
       Function("search_web", TRUE, [q |-> "d"])>>,
     <<Function("search_web", TRUE, [q |-> "d"]),
       Function("create_todo", TRUE, [title |-> "d"])>>}

\* The tool calls of a response: ids first, first + 1, ...
ToolCalls(first, functions) ==
    [i \in 1..Len(functions) |-> [id |-> first + i - 1, function |-> functions[i]]]

\* completion.choices[0].message
AssistantMessage(content, tool_calls) ==
    [role |-> "assistant", content |-> content, tool_calls |-> tool_calls]

\* self.build_prompt(user_input)
BuildPrompt(user_input) == <<[role |-> "user", content |-> user_input]>>

\* Before the call: no message list, empty stores.
ToolLoopReady ==
    [pc |-> "ready", user_input |-> <<>>, messages |-> <<>>, calls |-> 0, nextId |-> 1, pending |-> <<>>,
     raised |-> "none", returned |-> <<>>, facts |-> {}, todos |-> {},
     responses |-> <<>>, sent |-> <<>>]

ToolLoopStep(next) ==
    /\ iso' = next
    /\ UNCHANGED <<caches, added, adapters, regLog, chroma, audit, clock, nextTurn, out, sres, rin, rout, pt, fh, th, aw, ck, ym>>

\* messages = self.build_prompt(user_input); tools = self.get_tools()
StartToolLoop ==
    /\ iso.pc = "ready"
    /\ \E user_input \in {<<"h", "i">>, <<"t", "o", "d", "o">>} :
          ToolLoopStep([iso EXCEPT !.pc = "call", !.user_input = user_input,
                                   !.messages = BuildPrompt(user_input)])

\* response, usage = self.llm_client.get_response_with_tools(...) when the
\* client returns None (the completion call raised inside it): the unpacking
\* raises TypeError.
CompletionFails(self) ==
    [self EXCEPT !.pc = "raised", !.raised = "TypeError", !.calls = @ + 1,
                 !.sent = Append(@, self.messages)]

\* A faulty loop: the response with tool calls is not appended.
AfterResponseNotAppended(self, response) ==
    IF response.tool_calls = <<>>
    THEN [self EXCEPT !.pc = "returned", !.calls = @ + 1,
                      !.sent = Append(@, self.messages),
                      !.responses = Append(@, response),
                      !.returned = <<[content |-> response.content, messages |-> self.messages]>>]
    ELSE [self EXCEPT !.pc = "tools", !.calls = @ + 1,
                      !.sent = Append(@, self.messages),
                      !.responses = Append(@, response),
                      !.nextId = @ + Len(response.tool_calls),
                      !.pending = response.tool_calls]

\* The loop from the response of a completion call to the for loop: return on
\* a response without tool calls, messages.append(response) otherwise.
AfterResponse(self, response) ==
    IF response.tool_calls = <<>>
    THEN [self EXCEPT !.pc = "returned", !.calls = @ + 1,
                      !.sent = Append(@, self.messages),
                      !.responses = Append(@, response),
                      !.returned = <<[content |-> response.content, messages |-> self.messages]>>]
    ELSE [self EXCEPT !.pc = "tools", !.calls = @ + 1,
                      !.sent = Append(@, self.messages),
                      !.responses = Append(@, response),
                      !.nextId = @ + Len(response.tool_calls),
                      !.messages = Append(@, response),
                      !.pending = response.tool_calls]

\* The exception one pass of the for loop raises, or "none": json.loads on
\* arguments that are not JSON, Fact(**args) on arguments that are not a
\* fact's, args['description'] on arguments without it.
ToolRaises(function) ==
    IF ~function.json THEN "JSONDecodeError"
    ELSE IF function.name = "add_fact" /\ DOMAIN function.args # {"subject", "predicate", "object"}
    THEN "ValidationError"
    ELSE IF function.name = "create_todo" /\ "description" \notin DOMAIN function.args
    THEN "KeyError"
    ELSE "none"

\* result, for a pass that does not raise.
ToolResult(self, function) ==
    CASE function.name = "add_fact" -> [status |-> "fact_added"]
      [] function.name = "create_todo" ->
            IF function.args.description \in self.todos THEN [status |-> "todo_exists"]
            ELSE [status |-> "todo_created"]
      [] function.name = "list_active_todos" -> [status |-> "active_todos"]
      [] OTHER -> [status |-> "unknown_tool"]

\* The message the pass appends.
ToolMessage(tool_call, result) ==
    [role |-> "tool", tool_call_id |-> tool_call.id, name |-> tool_call.function.name,
     content |-> result]

\* One pass of `for tool_call in response.tool_calls`.
AfterToolCall(self, tool_call) ==
    IF ToolRaises(tool_call.function) # "none"
    THEN [self EXCEPT !.pc = "raised", !.raised = ToolRaises(tool_call.function)]
    ELSE [self EXCEPT !.messages = Append(@, ToolMessage(tool_call, ToolResult(self, tool_call.function))),
                      !.facts = IF tool_call.function.name = "add_fact"
                                THEN @ \cup {tool_call.function.args} ELSE @,
                      !.todos = IF tool_call.function.name = "create_todo"
                                THEN @ \cup {tool_call.function.args.description} ELSE @,
                      !.pending = Tail(@),
                      !.pc = IF Len(self.pending) = 1 THEN "call" ELSE "tools"]

\* The completion call answers.
CompletionAnswers ==
    /\ iso.pc = "call"
    /\ iso.calls < MaxRounds
    /\ \E functions \in FunctionLists :
          ToolLoopStep(AfterResponse(iso, AssistantMessage(<<"o", "k">>, ToolCalls(iso.nextId, functions))))

\* The completion call fails.
CompletionFailsStep ==
    /\ iso.pc = "call"
    /\ iso.calls < MaxRounds
    /\ ToolLoopStep(CompletionFails(iso))

ToolCallStep ==
    /\ iso.pc = "tools"
    /\ ToolLoopStep(AfterToolCall(iso, Head(iso.pending)))

InitToolLoop ==
    /\ caches = [c \in CacheIds |-> MessageCacheAdapter(PipelineCacheCapacity)]
    /\ added = [c \in CacheIds |-> <<>>]
    /\ adapters = RegisterAll(<<>>, ConstructorRegistrations)
    /\ regLog = ConstructorRegistrations
    /\ chroma = [n2 \in {} |-> <<>>]
    /\ audit = <<>>
    /\ clock = 0
    /\ nextTurn = 1
    /\ out = NoCall
    /\ sres = NoStoreCall
    /\ rin = NoRankInput
    /\ rout = NoRankOutput
    /\ pt = NoAppCall
    /\ fh = NoFileCall
    /\ iso = ToolLoopReady
    /\ th = NoThreads /\ aw = NoWriters /\ ck = NoChunking /\ ym = NoYaml
NextToolLoop == StartToolLoop \/ CompletionAnswers \/ CompletionFailsStep \/ ToolCallStep
SpecToolLoop == InitToolLoop /\ [][NextToolLoop]_vars

-----------------------------------------------------------------------------
(* extract_docs.py: chunk_text. A text is its words in order, separated by  *)
(* single spaces; a word is its place in the text, its length in characters *)
(* and whether it ends in one of . ! ? (the character is part of the word). *)

MaxWords == 4                   \* words of a text

Word(id, len, stop) == [id |-> id, len |-> len, stop |-> stop]

Texts ==
    UNION {{[i \in 1..n |-> Word(i, lens[i], stops[i])] :
              lens \in [1..n -> {2, 3}], stops \in [1..n -> BOOLEAN]} : n \in 0..MaxWords}
ChunkSizes == {0, 3, 4, 5, 8, 16}
Overlaps == {0, 4, 8}

\* re.split(r'(?<=[.!?])\s+', text.strip()): the words up to and including
\* each word that ends a sentence, and the words left after the last of them.
RECURSIVE SplitSentences(_, _)
SplitSentences(words, current) ==
    IF words = <<>> THEN (IF current = <<>> THEN <<>> ELSE <<current>>)
    ELSE IF Head(words).stop /\ Tail(words) # <<>>
    THEN <<Append(current, Head(words))>> \o SplitSentences(Tail(words), <<>>)
    ELSE SplitSentences(Tail(words), Append(current, Head(words)))

RECURSIVE WordsLen(_)
\* len of the words joined by single spaces.
WordsLen(words) ==
    IF words = <<>> THEN 0
    ELSE Head(words).len + (IF Tail(words) = <<>> THEN 0 ELSE 1 + WordsLen(Tail(words)))

\* One pass of `for sentence in sentences` (step 2): g is chunks,
\* current_chunk and current_length before the pass.
GroupOne(g, sentence, chunk_size) ==
    IF g.current_length + WordsLen(sentence) > chunk_size /\ g.current_chunk # <<>>
    THEN [chunks |-> Append(g.chunks, g.current_chunk),
          current_chunk |-> IF Len(g.current_chunk) > 1
                            THEN <<g.current_chunk[Len(g.current_chunk)]>> ELSE <<>>,
          current_length |-> IF Len(g.current_chunk) > 1
                             THEN WordsLen(g.current_chunk[Len(g.current_chunk)]) ELSE 0]
    ELSE [chunks |-> g.chunks,
          current_chunk |-> Append(g.current_chunk, sentence),
          current_length |-> g.current_length + WordsLen(sentence) + 1]

RECURSIVE GroupSentences(_, _, _)
GroupSentences(g, sentences, chunk_size) ==
    IF sentences = <<>> THEN g
    ELSE GroupSentences(GroupOne(g, Head(sentences), chunk_size), Tail(sentences), chunk_size)

\* chunks after step 2, the final chunk added: each chunk is its sentences.
SentenceChunks(sentences, chunk_size) ==
    LET g == GroupSentences([chunks |-> <<>>, current_chunk |-> <<>>, current_length |-> 0],
                            sentences, chunk_size)
    IN  IF g.current_chunk # <<>> THEN Append(g.chunks, g.current_chunk) ELSE g.chunks

RECURSIVE Concat(_)
\* " ".join(current_chunk) followed by chunk.split(): the words of the
\* sentences of a chunk, in order.
Concat(seqs) == IF seqs = <<>> THEN <<>> ELSE Head(seqs) \o Concat(Tail(seqs))

RECURSIVE SubChunks(_, _, _, _)
\* The while loop of step 3 from index i (counted from 0, as in the code),
\* with per = chunk_size // 4 and back = overlap // 4.
SubChunks(words, i, per, back) ==
    IF i >= Len(words) THEN <<>>
    ELSE LET end == Min(i + per, Len(words))
         IN  (IF end > i THEN <<SubSeq(words, i + 1, end)>> ELSE <<>>)
             \o SubChunks(words, Max(end - back, i + 1), per, back)

RECURSIVE FinalChunks(_, _, _)
FinalChunks(chunks, chunk_size, overlap) ==
    IF chunks = <<>> THEN <<>>
    ELSE SubChunks(Concat(Head(chunks)), 0, chunk_size \div 4, overlap \div 4)
         \o FinalChunks(Tail(chunks), chunk_size, overlap)

RECURSIVE TextPrefix(_, _)
\* text[:n]: the whole words in the first n characters, and the cut word.
TextPrefix(words, n) ==
    IF words = <<>> \/ n <= 0 THEN <<>>
    ELSE IF Head(words).len <= n
    THEN <<Head(words)>> \o TextPrefix(Tail(words), n - Head(words).len - 1)
    ELSE <<[Head(words) EXCEPT !.len = n]>>

\* chunk_text(text, chunk_size, overlap): each returned chunk is its words.
chunk_text(text, chunk_size, overlap) ==
    IF text = <<>> THEN <<>>
    ELSE LET final_chunks == FinalChunks(SentenceChunks(SplitSentences(text, <<>>), chunk_size),
                                         chunk_size, overlap)
         IN  IF final_chunks # <<>> THEN final_chunks ELSE <<TextPrefix(text, chunk_size)>>

ChunkCall(text, chunk_size, overlap) ==
    [pc |-> "called", text |-> text, chunk_size |-> chunk_size, overlap |-> overlap,
     chunks |-> <<>>]

ChunkStep ==
    /\ ck.pc = "called"
    /\ ck' = [ck EXCEPT !.pc = "returned",
                        !.chunks = chunk_text(ck.text, ck.chunk_size, ck.overlap)]
    /\ UNCHANGED <<caches, added, adapters, regLog, chroma, audit, clock, nextTurn, out, sres, rin, rout, pt, fh, th, aw, iso, ym>>

InitChunks ==
    /\ caches = [c \in CacheIds |-> MessageCacheAdapter(PipelineCacheCapacity)]
    /\ added = [c \in CacheIds |-> <<>>]
    /\ adapters = RegisterAll(<<>>, ConstructorRegistrations)
    /\ regLog = ConstructorRegistrations
    /\ chroma = [n2 \in {} |-> <<>>]
    /\ audit = <<>>
    /\ clock = 0
    /\ nextTurn = 1
    /\ out = NoCall
    /\ sres = NoStoreCall
    /\ rin = NoRankInput
    /\ rout = NoRankOutput
    /\ pt = NoAppCall
    /\ fh = NoFileCall
    /\ ck \in {ChunkCall(text, chunk_size, overlap) :
                 text \in Texts, chunk_size \in ChunkSizes, overlap \in Overlaps}
    /\ th = NoThreads /\ aw = NoWriters /\ iso = NoToolLoop /\ ym = NoYaml
NextChunks == ChunkStep
SpecChunks == InitChunks /\ [][NextChunks]_vars

-----------------------------------------------------------------------------
(* context.py: YamlMemoryAdapter and ConversationManager on one YAML file,  *)
(* with the Conversation objects the caller holds. A conversation is its    *)
(* uuid, last_active and turns (participants and description are carried    *)
(* unchanged); a turn is its uuid, conversation_id and response timestamp.  *)

MaxYamlTurns == 2               \* turns created in one run

Handles == {"a", "b"}           \* the caller's variables holding a Conversation
ConversationIds == {"c1", "c2"}
Stamps == {"t1", "t2"}          \* response.timestamp
NoObject == [uuid |-> "none"]

\* Conversation.start_new(..., uuid_override=conversation_id)
start_new(cid) == [uuid |-> cid, last_active |-> "now", turns |-> <<>>]

\* Conversation.to_dict
to_dict(convo) == convo

\* Conversation.from_dict: the turns rebuilt with conversation_id=data['uuid'].
from_dict(data) ==
    [data EXCEPT !.turns = [i \in 1..Len(data.turns) |->
                              [data.turns[i] EXCEPT !.conversation_id = data.uuid]]]

\* [c for c in data if c['uuid'] != convo.uuid] + [convo.to_dict()], saved.
save_conversation(data, convo) ==
    Append(SelectSeq(data, LAMBDA c : c.uuid # convo.uuid), to_dict(convo))

\* next((c for c in data if c['uuid'] == conversation_id), None), as a list
\* of no or one Conversation.
load_conversation_by_id(data, cid) ==
    LET found == SelectSeq(data, LAMBDA c : c.uuid = cid)
    IN  IF found = <<>> THEN <<>> ELSE <<from_dict(found[1])>>

\* Conversation.create_turn: the conversation after it.
create_turn(convo, turn) ==
    [convo EXCEPT !.turns = Append(@, turn), !.last_active = turn.timestamp]

\* YamlMemoryAdapter.store_turn on a stored conversation: the file after it.
store_turn(data, cid, turn) ==
    LET convo == load_conversation_by_id(data, cid)
    IN  save_conversation(data, [convo[1] EXCEPT !.turns = Append(@, turn),
                                                 !.last_active = turn.timestamp])

\* Empty file, no objects; log[c] is the turns that add_turn added to the
\* stored conversation c, in the order added.
YamlReady ==
    [pc |-> "ready", data |-> <<>>, objects |-> [h \in Handles |-> NoObject],
     nextId |-> 1, raised |-> "none", log |-> [c \in ConversationIds |-> <<>>]]

YamlStep(next) ==
    /\ ym' = next
    /\ UNCHANGED <<caches, added, adapters, regLog, chroma, audit, clock, nextTurn, out, sres, rin, rout, pt, fh, th, aw, iso, ck>>

\* h = Conversation.start_new(...)
StartNew(h, cid) ==
    /\ ym.objects[h] = NoObject
    /\ YamlStep([ym EXCEPT !.pc = "start_new", !.raised = "none",
                            !.objects[h] = start_new(cid)])

\* h = manager.get_or_start(conversation_id, ...)
GetOrStart(h, cid) ==
    /\ h \in Handles
    /\ LET convo == load_conversation_by_id(ym.data, cid)
       IN  YamlStep(IF convo # <<>>
                    THEN [ym EXCEPT !.pc = "get_or_start", !.raised = "none",
                                    !.objects[h] = convo[1]]
                    ELSE [ym EXCEPT !.pc = "get_or_start", !.raised = "none",
                                    !.objects[h] = start_new(cid),
                                    !.data = save_conversation(@, start_new(cid))])

\* adapter.save_conversation(h)
SaveConversation(h) ==
    /\ ym.objects[h] # NoObject
    /\ YamlStep([ym EXCEPT !.pc = "save_conversation", !.raised = "none",
                            !.data = save_conversation(@, ym.objects[h])])

\* manager.add_turn(h, request, response), response.timestamp = stamp.
ManagerAddTurn(h, stamp) ==
    /\ ym.objects[h] # NoObject
    /\ ym.nextId <= MaxYamlTurns
    /\ LET convo == ym.objects[h]
           turn == [uuid |-> ym.nextId, conversation_id |-> convo.uuid, timestamp |-> stamp]
       IN  YamlStep(IF load_conversation_by_id(ym.data, convo.uuid) = <<>>
                    THEN [ym EXCEPT !.pc = "add_turn", !.raised = "ValueError",
                                    !.nextId = @ + 1,
                                    !.objects[h] = create_turn(convo, turn)]
                    ELSE [ym EXCEPT !.pc = "add_turn", !.raised = "none",
                                    !.nextId = @ + 1,
                                    !.objects[h] = create_turn(convo, turn),
                                    !.data = store_turn(@, convo.uuid, turn),
                                    !.log[convo.uuid] = Append(@, turn)])

StartNewStep == \E h \in Handles, c \in ConversationIds : StartNew(h, c)
GetOrStartStep == \E h \in Handles, c \in ConversationIds : GetOrStart(h, c)
SaveConversationStep == \E h \in Handles : SaveConversation(h)
ManagerAddTurnStep == \E h \in Handles, stamp \in Stamps : ManagerAddTurn(h, stamp)

InitYaml ==
    /\ caches = [c \in CacheIds |-> MessageCacheAdapter(PipelineCacheCapacity)]
    /\ added = [c \in CacheIds |-> <<>>]
    /\ adapters = RegisterAll(<<>>, ConstructorRegistrations)
    /\ regLog = ConstructorRegistrations
    /\ chroma = [n2 \in {} |-> <<>>]
    /\ audit = <<>>
    /\ clock = 0
    /\ nextTurn = 1
    /\ out = NoCall
    /\ sres = NoStoreCall
    /\ rin = NoRankInput
    /\ rout = NoRankOutput
    /\ pt = NoAppCall
    /\ fh = NoFileCall
    /\ ym = YamlReady
    /\ th = NoThreads /\ aw = NoWriters /\ iso = NoToolLoop /\ ck = NoChunking
NextYaml == StartNewStep \/ GetOrStartStep \/ SaveConversationStep \/ ManagerAddTurnStep
SpecYaml == InitYaml /\ [][NextYaml]_vars

-----------------------------------------------------------------------------
(* adapters.py: the query of a retrieval adapter, for every top_k and       *)
(* max_overfetch of the model, on a collection of two stored turns.         *)

MaxQueryTopK == 4
MaxQueryOverfetch == 17

\* The collection the queries go to: the four documents of two turns.
QueriedStore ==
    [n \in {"episodic"} |->
        TurnDocuments(conversation_id,
                      <<MakeTurn(1, conversation_id, <<"h", "i">>, <<"o", "k">>, 0),
                        MakeTurn(2, conversation_id, <<"y", "o">>, <<"o", "k">>, 0)>>)]

\* EpisodicMemoryAdapter.build_messages(user_request, top_k=top_k,
\* max_overfetch=max_overfetch): the arguments of the collection.query call it
\* makes (n_results), the documents the collection gives back, and the result.
QueryWith(user_request, top_k, max_overfetch) ==
    /\ out' = [op |-> "chroma", q |-> user_request,
               raised |-> FALSE,
               msgs |-> ChromaBuildMessages(EpisodicMemoryAdapter, user_request, top_k, "",
                                            max_overfetch, DefaultMinSimilarity,
                                            DefaultMultiplier, chroma, {}).msgs,
               parts |-> <<[name |-> "episodic", top_k |-> top_k, max_overfetch |-> max_overfetch,
                            queries |-> ChromaQueries(EpisodicMemoryAdapter, user_request),
                            n_results |-> FetchK(top_k, max_overfetch),
                            fetched |-> Query(CollectionDocs(chroma, "episodic"), user_request,
                                              FetchK(top_k, max_overfetch)).documents]>>,
               before |-> <<>>]
    /\ UNCHANGED <<caches, added, adapters, regLog, chroma, audit, clock, nextTurn, sres, rin, rout, pt, fh, th, aw, iso, ck, ym>>

QueryStep ==
    \E user_request \in {<<"h", "i">>, <<"y", "o">>, <<"o">>},
       top_k \in 1..MaxQueryTopK, max_overfetch \in 1..MaxQueryOverfetch :
        QueryWith(user_request, top_k, max_overfetch)

InitQuery ==
    /\ caches = [c \in CacheIds |-> MessageCacheAdapter(PipelineCacheCapacity)]
    /\ added = [c \in CacheIds |-> <<>>]
    /\ adapters = RegisterAll(<<>>, ConstructorRegistrations)
    /\ regLog = ConstructorRegistrations
    /\ chroma = QueriedStore
    /\ audit = <<>>
    /\ clock = 0
    /\ nextTurn = 3
    /\ out = NoCall
    /\ sres = NoStoreCall
    /\ rin = NoRankInput
    /\ rout = NoRankOutput
    /\ pt = NoAppCall
    /\ fh = NoFileCall
    /\ th = NoThreads /\ aw = NoWriters /\ iso = NoToolLoop /\ ck = NoChunking /\ ym = NoYaml
NextQuery == QueryStep
SpecQuery == InitQuery /\ [][NextQuery]_vars

-----------------------------------------------------------------------------
(* context.py: two store_turn calls with the same json_export_path, each in *)
(* its own thread, at the append of their records. Each call opens the file *)
(* in append mode with the default buffering and writes its records through *)
(* json.dump and f.write("\n"); the bytes reach the file in write(2) calls,  *)
(* each of which appends atomically, when the file object's pending bytes   *)
(* reach its chunk size and when the file is closed.                        *)

MaxRecordBytes == 3
ChunkSize == 4                  \* the file object's chunk size (8192 bytes), scaled
AuditWriters == {1, 2}

\* The bytes of the rec-th record of writer w, n bytes long, and its newline.
RecordBytes(w, rec, n) == [k \in 1..n |-> <<w, rec, k>>]
Newline(w, rec) == <<w, rec, 0>>

\* What a call writes for its two records (request and response): every
\* record's bytes, then "\n".
Writes(w, sizes) ==
    RecordBytes(w, 1, sizes[1]) \o <<Newline(w, 1)>>
    \o RecordBytes(w, 2, sizes[2]) \o <<Newline(w, 2)>>

\* The two calls before `with json_path.open("a") as f`.
WritersAt(sizes) ==
    [file |-> <<>>,
     sizes |-> sizes,
     pc |-> [w \in AuditWriters |-> "open"],
     todo |-> [w \in AuditWriters |-> Writes(w, sizes[w])],
     pending |-> [w \in AuditWriters |-> <<>>]]

WriterStep(next) ==
    /\ aw' = next
    /\ UNCHANGED <<caches, added, adapters, regLog, chroma, audit, clock, nextTurn, out, sres, rin, rout, pt, fh, th, iso, ck, ym>>

\* json_path.open("a", encoding="utf-8")
OpenAppend(w) ==
    /\ aw.pc[w] = "open"
    /\ WriterStep([aw EXCEPT !.pc[w] = "write"])

\* One write of json.dump(record, f) or f.write("\n"): the byte joins the
\* pending bytes, which are written to the file when they reach the chunk size.
WriteByte(w) ==
    /\ aw.pc[w] = "write"
    /\ aw.todo[w] # <<>>
    /\ WriterStep(IF Len(aw.pending[w]) + 1 >= ChunkSize
                  THEN [aw EXCEPT !.file = @ \o Append(aw.pending[w], Head(aw.todo[w])),
                                  !.pending[w] = <<>>,
                                  !.todo[w] = Tail(@)]
                  ELSE [aw EXCEPT !.pending[w] = Append(@, Head(aw.todo[w])),
                                  !.todo[w] = Tail(@)])

\* The end of the with block: the pending bytes are written and the file closed.
CloseFile(w) ==
    /\ aw.pc[w] = "write"
    /\ aw.todo[w] = <<>>
    /\ WriterStep([aw EXCEPT !.file = @ \o aw.pending[w],
                             !.pending[w] = <<>>,
                             !.pc[w] = "done"])

OpenAppendStep == \E w \in AuditWriters : OpenAppend(w)
WriteByteStep == \E w \in AuditWriters : WriteByte(w)
CloseFileStep == \E w \in AuditWriters : CloseFile(w)

InitWriters ==
    /\ caches = [c \in CacheIds |-> MessageCacheAdapter(PipelineCacheCapacity)]
    /\ added = [c \in CacheIds |-> <<>>]
    /\ adapters = RegisterAll(<<>>, ConstructorRegistrations)
    /\ regLog = ConstructorRegistrations
    /\ chroma = [n2 \in {} |-> <<>>]
    /\ audit = <<>>
    /\ clock = 0
    /\ nextTurn = 1
    /\ out = NoCall
    /\ sres = NoStoreCall
    /\ rin = NoRankInput
    /\ rout = NoRankOutput
    /\ pt = NoAppCall
    /\ fh = NoFileCall
    /\ \E sizes \in [AuditWriters -> [1..2 -> 1..MaxRecordBytes]] : aw = WritersAt(sizes)
    /\ th = NoThreads /\ iso = NoToolLoop /\ ck = NoChunking /\ ym = NoYaml
NextWriters == OpenAppendStep \/ WriteByteStep \/ CloseFileStep
SpecWriters == InitWriters /\ [][NextWriters]_vars

-----------------------------------------------------------------------------
(* app.py, tui.py and clients.py: one exchange.                             *)

MaxExchanges == 1       \* exchanges that get as far as the completion call

\* Python's None as an f-string prints it.
NoneValue == <<"None">>

\* What the completion collaborator does with one request: it gives a text, or
\* it raises (a timeout included).
Completions == {[raises |-> FALSE, text |-> <<"o", "k">>], [raises |-> TRUE, text |-> <<>>]}

\* XAIClient.get_response: the completion's text; when the completion call
\* raises, the exception is printed and the function returns None.
GetResponse(completion) == IF completion.raises THEN NoneValue ELSE completion.text

\* The number of documents in the store.
RECURSIVE DocCountOf(_, _)
DocCountOf(store, names) ==
    IF names = {} THEN 0
    ELSE LET n == CHOOSE x \in names : TRUE
         IN Len(store[n]) + DocCountOf(store, names \ {n})
DocCount(store) == DocCountOf(store, DOMAIN store)

\* The parameters ContextPipeline.__init__ takes, and the keywords app.py's
\* module-level call passes.
ContextPipelineParams == {"chroma_store", "iso_name", "user_name"}
AppKeywords == {"chroma_store", "message_cache", "iso_name", "user_name"}

\* A call with a keyword the function does not take raises TypeError.
CallRaisesTypeError(keywords, params) == ~(keywords \subseteq params)

\* The outcome of the code run so far in one call: where it stands, the calls
\* it made, what it returned, and the store, audit file and caches it leaves.
Outcome(status, raisedBy, completions, stores, adds, completed, turn, value, store, file, cs) ==
    [status |-> status, raisedBy |-> raisedBy, http |-> "", builds |-> 1,
     completions |-> completions, stores |-> stores, adds |-> adds,
     completed |-> completed, turn |-> turn, value |-> value,
     store |-> store, file |-> file, caches |-> cs]

\* A faulty process_turn: the turn is added to the cache whether or not
\* store_turn raised.
AfterStoreTurnAddsAlways(messages, turn, completed, st) ==
    Outcome(IF st.raised # "none" THEN "raised" ELSE "returned", st.raised, 1, 1, 1, completed,
            <<turn>>, <<>>, st.store, st.file,
            [caches EXCEPT ![AppCache] = CacheAddTurn(@, turn)])

\* process_turn from store_turn's return or exception (st) on: add_turn on
\* app.py's message_cache and the return of (messages, response).
AfterStoreTurn(messages, turn, completed, st) ==
    IF st.raised # "none"
    THEN Outcome("raised", st.raised, 1, 1, 0, completed, <<turn>>, <<>>, st.store, st.file, caches)
    ELSE Outcome("returned", "none", 1, 1, 1, completed, <<turn>>,
                 <<[messages |-> messages, response |-> turn.response.content]>>,
                 st.store, st.file, [caches EXCEPT ![AppCache] = CacheAddTurn(@, turn)])

\* process_turn from the completion call's return (response) on: the turn is
\* built and handed to store_turn with the audit path.
AfterGetResponse(b, user_message, cid, response, completed, max_batch_size, storeFailAt, auditFailAt) ==
    AfterStoreTurn(b.msgs, MakeTurn(nextTurn, cid, user_message, response, clock), completed,
                   StoreTurn(b.store, audit, cid,
                             MakeTurn(nextTurn, cid, user_message, response, clock),
                             collection_episodic, TRUE, max_batch_size, storeFailAt, auditFailAt))

\* process_turn from build_messages' return or exception (b) on.
AfterBuildMessages(b, user_message, cid, completion, max_batch_size, storeFailAt, auditFailAt) ==
    IF b.raised
    THEN Outcome("raised", "build", 0, 0, 0, FALSE, <<>>, <<>>, b.store, audit, caches)
    ELSE AfterGetResponse(b, user_message, cid, GetResponse(completion), ~completion.raises,
                          max_batch_size, storeFailAt, auditFailAt)

\* process_turn(user_message, conversation_id)
ProcessTurn(user_message, cid, completion, down, max_batch_size, storeFailAt, auditFailAt) ==
    AfterBuildMessages(PipelineBuildMessages(adapters, user_message, chroma, caches, clock, down),
                       user_message, cid, completion, max_batch_size, storeFailAt, auditFailAt)

\* The state after a call, through `via`, that ran process_turn to the outcome r.
AfterProcessTurn(via, input, r) ==
    /\ nextTurn <= MaxExchanges
    /\ pt' = [via |-> via, input |-> input, status |-> r.status, raisedBy |-> r.raisedBy,
              http |-> r.http, builds |-> r.builds, completions |-> r.completions,
              stores |-> r.stores, adds |-> r.adds, completed |-> r.completed,
              turn |-> r.turn, value |-> r.value,
              docsBefore |-> DocCount(chroma), linesBefore |-> Len(audit),
              cachesBefore |-> <<caches>>]
    /\ caches' = r.caches
    /\ added' = IF r.adds = 1 THEN [added EXCEPT ![AppCache] = Append(@, r.turn[1])] ELSE added
    /\ chroma' = r.store
    /\ audit' = r.file
    /\ nextTurn' = IF r.turn = <<>> THEN nextTurn ELSE nextTurn + 1
    /\ out' = NoCall
    /\ UNCHANGED <<adapters, regLog, clock, sres, rin, rout, fh, th, aw, iso, ck, ym>>

\* The state after a call, through `via`, that ended before process_turn.
WithoutProcessTurn(via, input, status, raisedBy, http) ==
    /\ pt' = [NoAppCall EXCEPT !.via = via, !.input = input, !.status = status,
                               !.raisedBy = raisedBy, !.http = http,
                               !.docsBefore = DocCount(chroma), !.linesBefore = Len(audit),
                               !.cachesBefore = <<caches>>]
    /\ UNCHANGED <<caches, added, adapters, regLog, chroma, audit, clock, nextTurn, out, sres,
                   rin, rout, fh, th, aw, iso, ck, ym>>

\* A faulty boundary check: only the empty string is turned away.
IsBlankOnlyEmpty(text) == text = <<>>

\* not text.strip()
IsBlank(text) == Strip(text) = <<>>

\* chat_endpoint from process_turn's return or exception on: an exception
\* becomes HTTP 500; the returned tuple is no str, so ChatResponse raises.
EndpointOutcome(r) ==
    IF r.status = "raised" THEN [r EXCEPT !.http = "500"]
    ELSE [r EXCEPT !.status = "raised", !.raisedBy = "response"]

\* chat_endpoint(request)
ChatEndpoint(user_message, completion, down, max_batch_size, storeFailAt, auditFailAt) ==
    IF IsBlank(user_message)
    THEN WithoutProcessTurn("chat_endpoint", user_message, "raised", "empty", "400")
    ELSE AfterProcessTurn("chat_endpoint", user_message,
             EndpointOutcome(ProcessTurn(user_message, conversation_id, completion, down,
                                         max_batch_size, storeFailAt, auditFailAt)))

\* str.lower on the characters of the model.
Lower(text) ==
    [i \in 1..Len(text) |->
        CASE text[i] = "C" -> "c" [] text[i] = "D" -> "d" [] text[i] = "H" -> "h"
          [] OTHER -> text[i]]

SlashCommands == {<<"/", "c", "l", "e", "a", "r">>, <<"/", "d", "e", "b", "u", "g">>}

\* JulietChat.action_send_message from process_turn's return or exception on:
\* an exception becomes the text shown.
SendOutcome(r) == [r EXCEPT !.status = "returned"]

\* JulietChat.action_send_message, `text` being the input area's text.
SendMessage(text, completion, down, max_batch_size, storeFailAt, auditFailAt) ==
    IF IsBlank(text)
    THEN WithoutProcessTurn("send_message", text, "returned", "none", "")
    ELSE IF Lower(Strip(text)) \in SlashCommands
    THEN WithoutProcessTurn("send_message", text, "returned", "none", "")
    ELSE AfterProcessTurn("send_message", text,
             SendOutcome(ProcessTurn(Strip(text), "42", completion, down,
                                     max_batch_size, storeFailAt, auditFailAt)))

\* The module-level code of app.py: ContextPipeline is called with a keyword it
\* does not take.
LoadApp ==
    IF CallRaisesTypeError(AppKeywords, ContextPipelineParams)
    THEN WithoutProcessTurn("import", <<>>, "raised", "TypeError", "")
    ELSE WithoutProcessTurn("import", <<>>, "returned", "none", "")

\* The texts a user sends.
AppInputs == {<<"h", "i">>, <<" ">>, <<>>}
SendInputs == {<<" ", "h", "i">>, <<" ">>, <<>>, <<"/", "C", "l", "e", "a", "r">>}
\* The collections whose query raises during an exchange.
AppDownSets == {{}, {"episodic"}}

\* How the store and the audit file behave during one store_turn call: the
\* batch size the store reports, and the collection.add or the append that
\* raises, if any (at most one of the two is reached).
StoreFaults ==
    {f \in [max_batch_size : 1..MaxBatchSize, storeFailAt : 0..2, auditFailAt : 0..2] :
        /\ f.storeFailAt = 0 => f.max_batch_size = 1
        /\ f.storeFailAt > 0 => /\ f.auditFailAt = 0
                                /\ f.storeFailAt <= BatchCount(2, f.max_batch_size)}

\* ContextPipeline.build_messages(user_request), the queries of the
\* collections in `down` raising.
BuildMessagesWith(user_request, down) ==
    /\ AfterBuild(user_request,
                  PipelineBuildMessages(adapters, user_request, chroma, caches, clock, down))
    /\ UNCHANGED caches

ProcessTurnStep ==
    \E user_message \in AppInputs, completion \in Completions, down \in AppDownSets,
       f \in StoreFaults :
        AfterProcessTurn("process_turn", user_message,
            ProcessTurn(user_message, conversation_id, completion, down,
                        f.max_batch_size, f.storeFailAt, f.auditFailAt))

\* The collaborators' behaviour during a call that never reaches them is not
\* drawn.
NoFault == [max_batch_size |-> 1, storeFailAt |-> 0, auditFailAt |-> 0]
Environments(text) ==
    IF IsBlank(text) THEN {[completion |-> CHOOSE c \in Completions : ~c.raises, down |-> {}, f |-> NoFault]}
    ELSE [completion : Completions, down : AppDownSets, f : StoreFaults]

ChatEndpointStep ==
    \E user_message \in AppInputs :
      \E e \in Environments(user_message) :
        ChatEndpoint(user_message, e.completion, e.down,
                     e.f.max_batch_size, e.f.storeFailAt, e.f.auditFailAt)

SendMessageStep ==
    \E text \in SendInputs :
      \E e \in Environments(text) :
        SendMessage(text, e.completion, e.down,
                    e.f.max_batch_size, e.f.storeFailAt, e.f.auditFailAt)

\* The build_messages calls made beside the exchanges: a request and the
\* collections whose query raises.
BuildInputs ==
    {[q |-> <<"h", "i">>, down |-> {}], [q |-> <<"h", "i">>, down |-> {"episodic"}],
     [q |-> <<"h", "i">>, down |-> {"semantic"}], [q |-> <<" ">>, down |-> {"semantic", "episodic"}]}

\* One such call is made after an exchange; repeated calls are the subject of
\* Spec.
BuildWithStep == out.op = "none" /\ \E b \in BuildInputs : BuildMessagesWith(b.q, b.down)

\* The exchanges of app.py and tui.py over a pipeline as
\* ContextPipeline(chroma_store) builds it.
NextApp == LoadApp \/ ProcessTurnStep \/ ChatEndpointStep \/ SendMessageStep \/ BuildWithStep
SpecApp == Init /\ [][NextApp]_vars

-----------------------------------------------------------------------------
(* Properties of the recency cache.                                         *)

\* The request and response lines of the turns of a list, oldest first.
TurnLines(turns) ==
    [i \in 1..(2 * Len(turns)) |->
        IF i % 2 = 1 THEN to_memory_string(turns[(i + 1) \div 2].request)
        ELSE to_memory_string(turns[i \div 2].response)]

\* The last k elements of a list.
LastK(s, k) == SubSeq(s, Len(s) - k + 1, Len(s))

\* C1: after n add_turn calls on a cache of capacity N, build_messages() returns
\* the lines of exactly the last min(n, N) turns added, oldest first, the request
\* line of each turn right before its response line, in one chat_history block
\* (and no message when that is no turn at all).
C1_CacheKeepsLastTurns ==
    out.op = "cache" =>
        LET n == Len(added[AppCache])
            kept == LastK(added[AppCache], Min(n, caches[AppCache].capacity))
        IN IF kept = <<>> THEN out.msgs = <<>>
           ELSE out.msgs = <<[role |-> "system",
                              content |-> <<"<chat_history>\n">>
                                          \o Join(TurnLines(kept), <<"\n">>)
                                          \o <<"\n</chat_history>">>]>>

\* C1 witness: capacity + 1 turns were added to a cache of positive capacity and
\* build_messages() returned a block without the first turn's lines.
C1_Witness ==
    /\ out.op = "cache"
    /\ caches[AppCache].capacity >= 1
    /\ Len(added[AppCache]) = caches[AppCache].capacity + 1
    /\ out.msgs # <<>>
    /\ caches[AppCache].cache = Tail(added[AppCache])

-----------------------------------------------------------------------------
(* Properties of the pipeline.                                              *)

\* The user-role message wrapping q in the user tag.
UserMessage(q) == [role |-> "user", content |-> <<"<", "user", ">">> \o q \o <<"</", "user", ">">>]

\* The assistant-role continuation marker.
AssistantMarker == [role |-> "assistant", content |-> <<"<assistant>">>]

\* The timestamp message of the clock reading t.
TimestampMessage(t) ==
    [role |-> "system",
     content |-> <<"<timestamp>The current date and time is: ", "D" \o ToString(t), "</timestamp>">>]

\* The three fixed messages, written out.
SystemInstructions == [role |-> "system", content |-> <<"<system>", "SYSTEM_MESSAGE", "</system>">>]
AssistantIntro ==
    [role |-> "assistant", content |-> <<"<assistant_intro>", "ASSISTANT_INTRO", "</assistant_intro>">>]
Focus == [role |-> "system", content |-> <<"<focus>", "ASSISTANT_FOCUS", "</focus>">>]

\* The registry is the one the constructor builds.
CanonicalRegistry ==
    /\ Len(adapters) = 6
    /\ [i \in 1..6 |-> adapters[i].name]
         = <<"timestamp", "semantic", "episodic", "message_cache", "user_request", "assistant_prefix">>
    /\ [i \in 1..6 |-> adapters[i].adapter.kind]
         = <<"timestamp", "chroma", "chroma", "message_cache", "user_request", "assistant_prefix">>

\* No collection of the store holds a document.
EmptyStore == \A n \in DOMAIN chroma : chroma[n] = <<>>

\* C2: whatever register_adapter calls followed the construction, the list
\* build_messages(q) returns ends with the user message wrapping q and then,
\* as its very last element, the assistant continuation marker.
C2_EndsWithUserThenMarker ==
    (out.op = "pipeline" /\ ~out.raised) =>
        /\ Len(out.msgs) >= 2
        /\ out.msgs[Len(out.msgs) - 1] = UserMessage(out.q)
        /\ out.msgs[Len(out.msgs)] = AssistantMarker

\* C3: with the constructor's registry, an empty recency cache and no document in
\* any collection, build_messages(q) for a non-empty q returns exactly the six
\* messages system instructions, assistant intro, focus, timestamp, user message
\* and assistant marker: no retrieval block and no chat-history block.
C3_SixMessagesOnEmptySources ==
    (/\ out.op = "pipeline"
     /\ out.q # <<>>
     /\ CanonicalRegistry
     /\ caches[PipelineCache].cache = <<>>
     /\ EmptyStore) =>
        /\ ~out.raised
        /\ \E t \in 0..clock :
              out.msgs = <<SystemInstructions, AssistantIntro, Focus, TimestampMessage(t),
                           UserMessage(out.q), AssistantMarker>>

\* C3 witness: build_messages("hi") returned six messages on the constructor's
\* registry with an empty cache and an empty store.
C3_Witness ==
    /\ out.op = "pipeline"
    /\ out.q = <<"h", "i">>
    /\ CanonicalRegistry
    /\ caches[PipelineCache].cache = <<>>
    /\ EmptyStore
    /\ "semantic" \in DOMAIN chroma
    /\ Len(out.msgs) = 6

\* C7: whatever the registry and the request, the first three messages of
\* build_messages are the system instructions, the assistant intro and the focus
\* message, in this order, each in its own tag.
C7_FixedMessagesFirst ==
    (out.op = "pipeline" /\ ~out.raised) =>
        /\ Len(out.msgs) >= 3
        /\ SubSeq(out.msgs, 1, 3) = <<SystemInstructions, AssistantIntro, Focus>>

\* C7 witness: build_messages returned after a register_adapter call beyond the
\* constructor's, with adapter output behind the three fixed messages.
C7_Witness ==
    /\ out.op = "pipeline"
    /\ ~out.raised
    /\ Len(regLog) > Len(ConstructorRegistrations)
    /\ Len(out.msgs) > 6
    /\ out.msgs[1] = SystemInstructions

\* s with x appended unless it is in s, or unless `keep` is false.
AppendNew(s, x, keep) ==
    IF keep /\ \A j \in 1..Len(s) : s[j] # x THEN Append(s, x) ELSE s

\* The names registered, in the order in which each was registered first.
NamesByFirstRegistration(log) ==
    LET f[i \in 0..Len(log)] == IF i = 0 THEN <<>> ELSE AppendNew(f[i - 1], log[i].name, TRUE)
    IN f[Len(log)]

\* The names registered, in the order in which the adapter each holds now was
\* registered.
NamesByLastRegistration(log) ==
    LET f[i \in 0..Len(log)] ==
            IF i = 0 THEN <<>>
            ELSE AppendNew(f[i - 1], log[i].name,
                           \A j \in (i + 1)..Len(log) : log[j].name # log[i].name)
    IN f[Len(log)]

\* The adapter registered last under a name.
LastRegistered(log, name) ==
    log[CHOOSE i \in 1..Len(log) :
            /\ log[i].name = name
            /\ \A j \in (i + 1)..Len(log) : log[j].name # name].adapter

\* The message lists of parts, one after the other.
Concatenation(parts) ==
    LET f[i \in 0..Len(parts)] == IF i = 0 THEN <<>> ELSE f[i - 1] \o parts[i].msgs
    IN f[Len(parts)]

\* After the three fixed messages the output is the outputs of the adapters
\* registered under `names`, in the order of `names`: each adapter is passed the
\* query exactly when it requires it, and gives what its build_messages returns.
OutputFollows(names) ==
    /\ Len(out.parts) = Len(names)
    /\ \A i \in 1..Len(names) :
          LET a == LastRegistered(regLog, names[i])
          IN /\ out.parts[i].name = names[i]
             /\ out.parts[i].passed = a.requires_user_request
             /\ \E t \in 0..clock :
                   out.parts[i].msgs
                     = AdapterBuildMessages(a, a.requires_user_request, out.q, chroma, caches, t, {}).msgs
    /\ out.msgs = <<SystemInstructions, AssistantIntro, Focus>> \o Concatenation(out.parts)

\* C8: after the three fixed messages, the output of build_messages is the
\* concatenation of the registered adapters' outputs in the order in which their
\* names were first registered (a name registered again keeps its place and only
\* its adapter is replaced); each adapter's own order is kept, an adapter with
\* requires_user_request receives the query and the others are called without
\* it, and an adapter that returns nothing contributes nothing.
C8_OutputInFirstRegistrationOrder ==
    (out.op = "pipeline" /\ ~out.raised) => OutputFollows(NamesByFirstRegistration(regLog))

\* C8 as stated: the adapters' outputs follow one another in the order in which
\* the adapters were registered.
C8_OutputInRegistrationOrder ==
    (out.op = "pipeline" /\ ~out.raised) => OutputFollows(NamesByLastRegistration(regLog))

\* C8 witness: build_messages returned after "timestamp" was registered again,
\* with a block of the episodic adapter in the output.
C8_Witness ==
    /\ out.op = "pipeline"
    /\ ~out.raised
    /\ Len(regLog) = Len(ConstructorRegistrations) + 1
    /\ regLog[Len(regLog)].name = "timestamp"
    /\ out.parts[1].name = "timestamp"
    /\ \E i \in 1..Len(out.parts) : out.parts[i].name = "episodic" /\ out.parts[i].msgs # <<>>

\* A timestamp message, whatever its clock reading.
IsTimestampMessage(m) ==
    /\ m.role = "system"
    /\ Len(m.content) = 3
    /\ m.content[1] = "<timestamp>The current date and time is: "
    /\ m.content[3] = "</timestamp>"

SameExceptTimestamp(a, b) ==
    /\ Len(a) = Len(b)
    /\ \A i \in 1..Len(a) : a[i] = b[i] \/ (IsTimestampMessage(a[i]) /\ IsTimestampMessage(b[i]))

\* C9: two build_messages(q) calls with the same q and no add_turn,
\* register_adapter or store write between them return lists that are equal
\* element by element, except for the timestamp message.
C9_RepeatedBuildEqual ==
    (out.op = "pipeline" /\ out.before # <<>> /\ out.before[1].q = out.q) =>
        /\ out.raised = out.before[1].raised
        /\ SameExceptTimestamp(out.before[1].msgs, out.msgs)

\* C9 witness: the second of two such calls returned, with a chat-history block
\* and a retrieval block, and a timestamp message other than the first call's.
C9_Witness ==
    /\ out.op = "pipeline"
    /\ out.before # <<>>
    /\ out.before[1].q = out.q
    /\ Len(out.msgs) >= 8
    /\ out.before[1].msgs # out.msgs

-----------------------------------------------------------------------------
(* Properties of turn persistence.                                          *)

\* The documents the last store call added to its collection.
DocumentsWritten ==
    IF sres.collection \in DOMAIN chroma
    THEN SubSeq(chroma[sres.collection], sres.docsBefore + 1, Len(chroma[sres.collection]))
    ELSE <<>>

\* The lines the last store call appended to the audit file.
LinesAppended == SubSeq(audit, sres.linesBefore + 1, Len(audit))

\* C4: a store_turn call on a turn with id T that returns writes exactly two
\* documents, "T_req" holding the request and "T_res" holding the response, and
\* appends exactly two lines to the audit file when a path is given and none
\* when it is omitted.
C4_StoreTurnWritesTwoDocuments ==
    (sres.called /\ sres.single /\ sres.raised = "none") =>
        LET T == sres.turns[1]
        IN /\ Len(DocumentsWritten) = 2
           /\ DocumentsWritten[1].id = ToString(T.uuid) \o "_req"
           /\ DocumentsWritten[1].text = <<T.request.speaker, " @ ", T.request.timestamp, ": ">> \o T.request.content
           /\ DocumentsWritten[2].id = ToString(T.uuid) \o "_res"
           /\ DocumentsWritten[2].text = <<T.response.speaker, " @ ", T.response.timestamp, ": ">> \o T.response.content
           /\ Len(LinesAppended) = IF sres.path THEN 2 ELSE 0
           /\ sres.path => /\ LinesAppended[1].id = ToString(T.uuid) \o "_req"
                           /\ LinesAppended[2].id = ToString(T.uuid) \o "_res"

\* C4 witness: a store_turn call with an audit path returned on a store that
\* already held the documents of an earlier turn.
C4_Witness ==
    /\ sres.called /\ sres.single /\ sres.raised = "none"
    /\ sres.path
    /\ sres.docsBefore = 2
    /\ Len(DocumentsWritten) = 2
    /\ Len(LinesAppended) = 2

\* C10: in store_turn with an audit path the store write and the audit append
\* are independent: when the store write fails the two audit records are still
\* appended, and when the audit append fails the two documents are still written
\* and kept.
C10_WriteAndAppendIndependent ==
    (sres.called /\ sres.single /\ sres.path) =>
        /\ sres.raised = "store" => Len(LinesAppended) = 2
        /\ sres.raised = "audit" => Len(DocumentsWritten) = 2

-----------------------------------------------------------------------------
(* Properties of the ranking.                                               *)

\* similarity = 1 - distance, per fetched document.
FetchedSimilarities == [i \in 1..Len(rin.distances) |-> Scale - rin.distances[i]]

\* sim is not below max(best / dynamic_multiplier, min_similarity), best being
\* the greatest similarity fetched.
AtOrAboveThreshold(sim) ==
    /\ \A j \in 1..Len(rin.distances) : sim * rin.dynamic_multiplier >= FetchedSimilarities[j]
    /\ sim >= rin.min_similarity

NonBlank(text) == \E i \in 1..Len(text) : text[i] \notin {" ", "\n", "\t"}

\* The fetched documents that survive, by their position, in fetch order.
SurvivingPositions ==
    SelectSeq([i \in 1..Len(rin.documents) |-> i],
              LAMBDA i : NonBlank(rin.documents[i]) /\ AtOrAboveThreshold(FetchedSimilarities[i]))

\* C5: for every fetched result and every top_k, the block holds at most
\* min(top_k, number of fetched documents whose similarity is at or above the
\* threshold) chunks, in non-increasing order of similarity; with no fetched
\* document there is no message.
C5_ChunksBoundedAndSorted ==
    rout.done =>
        LET above == {i \in 1..Len(rin.documents) : AtOrAboveThreshold(FetchedSimilarities[i])}
            k == Len(rout.selected)
        IN /\ k <= Min(rout.top_k, Cardinality(above))
           /\ \A i \in 1..k : \A j \in (i + 1)..k : rout.selected[i].sim >= rout.selected[j].sim
           /\ IF k = 0 THEN rout.msgs = <<>>
              ELSE /\ Len(rout.msgs) = 1
                   /\ rout.msgs[1].role = "system"
                   /\ rout.msgs[1].content
                        = <<"<", "semantic", ">\n">>
                          \o Join([i \in 1..k |-> rout.selected[i].text], <<"\n\n">>)
                          \o <<"\n</", "semantic", ">">>
           /\ rin.documents = <<>> => (rout.msgs = <<>> /\ ~rout.raised)

\* C5 witness: three fetched documents were at or above the threshold, top_k = 2
\* cut them to two chunks of different similarity.
C5_Witness ==
    /\ rout.done
    /\ rout.top_k = 2
    /\ Len(rout.survivors) = 3
    /\ Len(rout.selected) = 2
    /\ rout.selected[1].sim > rout.selected[2].sim
    /\ rout.survivors[1].sim < rout.survivors[2].sim

\* C6: the threshold is max(best / dynamic_multiplier, min_similarity); a fetched
\* document survives exactly when its text is non-blank after trimming and its
\* similarity is not below the threshold (similarities 0.9, 0.3, 0.1 with
\* multiplier 4 and floor 0.15 keep exactly 0.9 and 0.3); when every document is
\* filtered out there is no message and no error.
C6_SurvivorsByThreshold ==
    rout.done =>
        /\ ~rout.raised =>
              /\ [i \in 1..Len(rout.survivors) |-> rout.survivors[i].sim]
                   = [i \in 1..Len(SurvivingPositions) |-> FetchedSimilarities[SurvivingPositions[i]]]
              /\ rout.tagging_mode = "none" =>
                    [i \in 1..Len(rout.survivors) |-> rout.survivors[i].text]
                      = [i \in 1..Len(SurvivingPositions) |-> Strip(rin.documents[SurvivingPositions[i]])]
        /\ (/\ rin.distances = <<Scale - 36, Scale - 12, Scale - 4>>
            /\ rin.dynamic_multiplier = 4
            /\ rin.min_similarity = 6
            /\ \A i \in 1..3 : NonBlank(rin.documents[i])
            /\ ~rout.raised) =>
              [i \in 1..Len(rout.survivors) |-> rout.survivors[i].sim] = <<36, 12>>
        /\ SurvivingPositions = <<>> => (~rout.raised /\ rout.msgs = <<>>)

\* C6 witness: the ranking ran on similarities 0.9, 0.3, 0.1 of non-blank
\* documents with multiplier 4 and kept the first two.
C6_Witness ==
    /\ rout.done
    /\ ~rout.raised
    /\ rin.distances = <<Scale - 36, Scale - 12, Scale - 4>>
    /\ rin.dynamic_multiplier = 4
    /\ \A i \in 1..3 : NonBlank(rin.documents[i])
    /\ Len(rout.survivors) = 2
    /\ Len(rout.selected) = 2

-----------------------------------------------------------------------------
(* Properties of an exchange.                                               *)

\* process_turn was entered by the last call.
ProcessTurnRan == pt.via \in {"process_turn", "chat_endpoint", "send_message"} /\ pt.builds = 1

\* The store, the audit file and the caches are as they were before the last call.
NothingPersisted ==
    /\ DocCount(chroma) = pt.docsBefore
    /\ Len(audit) = pt.linesBefore
    /\ <<caches>> = pt.cachesBefore

\* `line` occurs in `content`.
Contains(content, line) ==
    \E k \in 0..(Len(content) - Len(line)) : SubSeq(content, k + 1, k + Len(line)) = line

\* C11: when the query of a retrieval adapter raises during build_messages, the
\* call still returns: the three fixed messages first and the messages of the
\* other adapters after them, the user message and the assistant marker last.
C11_FailingQuerySkipped ==
    out.op = "pipeline" =>
        /\ ~out.raised
        /\ Len(out.msgs) >= 6
        /\ SubSeq(out.msgs, 1, 3) = <<SystemInstructions, AssistantIntro, Focus>>
        /\ out.msgs[Len(out.msgs) - 1] = UserMessage(out.q)
        /\ out.msgs[Len(out.msgs)] = AssistantMarker

\* C12: when the completion collaborator raises during process_turn, process_turn
\* ends with a failure for its caller, and the completion call was made once.
C12_CompletionFailureSurfaced ==
    (pt.via = "process_turn" /\ pt.completions >= 1 /\ ~pt.completed) =>
        /\ pt.status = "raised"
        /\ pt.completions = 1

\* C13: on a process_turn run in which the completion collaborator produced no
\* response, no document is written, no audit line is appended and the caches
\* are unchanged; on a run that completes, exactly one turn is stored.
C13_TurnOnlyForCompletedExchange ==
    ProcessTurnRan =>
        /\ ~pt.completed => NothingPersisted
        /\ (pt.completed /\ pt.raisedBy = "none") =>
              /\ DocCount(chroma) = pt.docsBefore + 2
              /\ Len(audit) = pt.linesBefore + 2

\* C14: a request that is empty or whitespace-only is turned away by
\* chat_endpoint (with HTTP 400) and by the TUI send action before
\* build_messages, the completion call, store_turn or add_turn is invoked, and
\* the store, the audit file and the caches are unchanged.
C14_BlankRequestRejected ==
    (pt.via \in {"chat_endpoint", "send_message"} /\ ~NonBlank(pt.input)) =>
        /\ pt.builds = 0 /\ pt.completions = 0 /\ pt.stores = 0 /\ pt.adds = 0
        /\ NothingPersisted
        /\ pt.via = "chat_endpoint" => (pt.status = "raised" /\ pt.http = "400")

\* C14 witness: chat_endpoint turned a whitespace-only request away after an
\* exchange had stored a turn.
C14_Witness ==
    /\ pt.via = "chat_endpoint"
    /\ pt.input = <<" ">>
    /\ pt.http = "400"
    /\ pt.docsBefore = 2
    /\ pt.builds = 0

\* C15: for a request that is empty or whitespace-only, a retrieval adapter
\* returns no message and sends no query to its collection.
C15_BlankQuerySkipsRetrieval ==
    (out.op = "pipeline" /\ ~NonBlank(out.q)) =>
        /\ ~out.raised
        /\ \A i \in 1..Len(out.parts) :
              out.parts[i].name \in {"semantic", "episodic"} =>
                  (out.parts[i].msgs = <<>> /\ out.parts[i].queries = 0)

\* C15 witness: build_messages(" ") returned while the store held documents and
\* every query would have raised; the retrieval adapters were called.
C15_Witness ==
    /\ out.op = "pipeline"
    /\ out.q = <<" ">>
    /\ ~out.raised
    /\ DocCount(chroma) >= 2
    /\ \E i \in 1..Len(out.parts) : out.parts[i].name = "episodic" /\ out.parts[i].passed

\* C18: after process_turn completed an exchange, the next build_messages call
\* of the pipeline returns a chat-history block with the request and response
\* lines of that turn (and app.py constructs that pipeline).
C18_TurnInPipelineCache ==
    /\ pt.via = "import" => pt.status = "returned"
    /\ (out.op = "pipeline" /\ ~out.raised /\ ProcessTurnRan /\ pt.adds = 1) =>
          \E i \in 1..Len(out.msgs) :
              /\ out.msgs[i].role = "system"
              /\ out.msgs[i].content[1] = "<chat_history>\n"
              /\ Contains(out.msgs[i].content,
                          <<pt.turn[1].request.speaker, " @ ", pt.turn[1].request.timestamp, ": ">>
                          \o pt.turn[1].request.content)
              /\ Contains(out.msgs[i].content,
                          <<pt.turn[1].response.speaker, " @ ", pt.turn[1].response.timestamp, ": ">>
                          \o pt.turn[1].response.content)

\* C20: in process_turn, add_turn is called at most once, and only after
\* store_turn returned; when store_turn raises, the caches are unchanged.
C20_AddTurnAfterStore ==
    ProcessTurnRan =>
        /\ pt.adds <= 1
        /\ pt.adds = 1 => (pt.stores = 1 /\ pt.raisedBy \notin {"store", "audit"})
        /\ pt.raisedBy \in {"store", "audit"} =>
              (pt.adds = 0 /\ <<caches>> = pt.cachesBefore)
        /\ pt.adds = 1 =>
              /\ caches[AppCache].cache = Append(pt.cachesBefore[1][AppCache].cache, pt.turn[1])
              /\ caches[PipelineCache] = pt.cachesBefore[1][PipelineCache]

\* C20 witness: store_turn raised in a process_turn run after writing a
\* document, and the cache was left as it was.
C20_Witness ==
    /\ pt.via = "process_turn"
    /\ pt.raisedBy = "store"
    /\ pt.stores = 1
    /\ DocCount(chroma) = pt.docsBefore + 1
    /\ pt.adds = 0

-----------------------------------------------------------------------------
(* Properties of the tagging.                                               *)

\* The metadata does not provide the field the tagging mode reads.
LacksField(meta, tagging_mode) ==
    \/ meta.isNone
    \/ tagging_mode = "source_file" /\ "source_file" \notin DOMAIN meta.map
    \/ tagging_mode = "simple" /\ "role" \notin DOMAIN meta.map

\* C16: when no fetched document's metadata provides the field the tagging
\* mode needs (the mapping lacks it, or the metadata is absent), the retrieval
\* does not fail, the surviving documents are emitted untagged and the block is
\* returned.
C16_MissingFieldUntagged ==
    (/\ rout.done
     /\ rout.tagging_mode \in {"source_file", "simple"}
     /\ \A i \in 1..Len(rin.metadatas) : LacksField(rin.metadatas[i], rout.tagging_mode)) =>
        /\ ~rout.raised
        /\ [i \in 1..Len(rout.survivors) |-> rout.survivors[i].text]
             = [i \in 1..Len(SurvivingPositions) |-> Strip(rin.documents[SurvivingPositions[i]])]
        /\ (SurvivingPositions # <<>> /\ rout.top_k > 0) => Len(rout.msgs) = 1

\* The file name without its extension: without its last "." and what follows,
\* when something follows.
StemOf(name) ==
    IF \E i \in 1..(Len(name) - 1) : name[i] = "." /\ \A j \in (i + 1)..Len(name) : name[j] # "."
    THEN LET i == CHOOSE i \in 1..(Len(name) - 1) :
                      name[i] = "." /\ \A j \in (i + 1)..Len(name) : name[j] # "."
         IN SubSeq(name, 1, i - 1)
    ELSE name

\* The file name and the inner tag of the one chunk of the block.
TaggedName == rin.metadatas[1].map.source_file
InnerTag == SubSeq(rout.selected[1].text, 2, 1 + (Len(rout.selected[1].text) - 5) \div 2)
TagRan == rout.done /\ rout.tagging_mode = "source_file" /\ Len(rout.selected) = 1

\* The positions of the letters, digits and hyphens of s.
WordPositions(s) ==
    SelectSeq([i \in 1..Len(s) |-> i], LAMBDA i : s[i] \in AlnumChars \cup {"-"})

\* t is the maximal runs of letters, digits and hyphens of s joined by single
\* underscores, or "unknown" when s has none.
IsWordsJoined(t, s) ==
    LET p == WordPositions(s)
        q == WordPositions(t)
    IN IF p = <<>> THEN t = <<"unknown">>
       ELSE /\ [k \in 1..Len(q) |-> t[q[k]]] = [k \in 1..Len(p) |-> s[p[k]]]
            /\ \A i \in 1..Len(t) : t[i] \in AlnumChars \cup {"-", "_"}
            /\ q[1] = 1 /\ q[Len(q)] = Len(t)
            /\ \A k \in 1..(Len(p) - 1) :
                  q[k + 1] - q[k] = (IF p[k + 1] - p[k] > 1 THEN 2 ELSE 1)

\* s with every maximal run of non-alphanumeric characters replaced by one "_".
RECURSIVE CollapseNonAlnum(_)
CollapseNonAlnum(s) ==
    IF s = <<>> THEN <<>>
    ELSE IF s[1] \in AlnumChars THEN <<s[1]>> \o CollapseNonAlnum(Tail(s))
    ELSE IF Len(s) > 1 /\ s[2] \notin AlnumChars THEN CollapseNonAlnum(Tail(s))
    ELSE <<"_">> \o CollapseNonAlnum(Tail(s))

\* C17 (as amended): under the source-file tagging, the inner tag of a chunk is
\* the maximal runs of letters, digits and hyphens of the file name without its
\* extension, joined by single underscores, and "unknown" when there is none;
\* "My Notes v2.txt" gives "My_Notes_v2"; the chunk is the text between the
\* opening and the closing inner tag.
C17_TagIsWordsJoined ==
    TagRan =>
        /\ IsWordsJoined(InnerTag, StemOf(TaggedName))
        /\ rout.selected[1].text
             = <<"<">> \o InnerTag \o <<">">> \o Strip(rin.documents[1]) \o <<"</">> \o InnerTag \o <<">">>
        /\ TaggedName = DocumentedName =>
              InnerTag = <<"M", "y", "_", "N", "o", "t", "e", "s", "_", "v", "2">>

\* C17 witness: a chunk of a file named with a hyphen and an extension was
\* tagged, the hyphen kept.
C17_Witness ==
    /\ TagRan
    /\ TaggedName = <<"-", ".", "a">>
    /\ InnerTag = <<"-">>

\* C17 (as stated): under the source-file tagging, the inner tag of a chunk is
\* the file name with its extension stripped and every maximal run of
\* non-alphanumeric characters replaced by a single "_", for every file name.
C17_TagCollapsesNonAlnum ==
    TagRan => InnerTag = CollapseNonAlnum(StemOf(TaggedName))

-----------------------------------------------------------------------------
(* Properties of the file handler.                                          *)

\* The sandbox directory, and whether a path is it or lies inside it.
Sandbox == <<"/", "c", "/", "w">>
InSandbox(path) ==
    \/ path = Sandbox
    \/ /\ Len(path) > Len(Sandbox) + 1
       /\ SubSeq(path, 1, Len(Sandbox) + 1) = Sandbox \o <<"/">>

\* C19: every FileHandler call either ends in _resolve_path's ValueError or
\* resolves its file name to the sandbox directory or a path inside it, and no
\* create_file, read_file, edit_file or delete_file call opens or removes a
\* path outside the sandbox directory.
C19_StaysInSandbox ==
    fh.op # "none" =>
        /\ fh.raised = "ValueError" \/ InSandbox(fh.resolved)
        /\ \A path \in fh.touched : InSandbox(path)

-----------------------------------------------------------------------------
(* Properties of concurrent calls.                                          *)

\* C21: when one thread runs MessageCacheAdapter.build_messages while another
\* runs add_turn on the same cache, the reader does not fail, and when it has
\* returned, its output is the output for the contents the cache had before or
\* after an add_turn of the other thread.
C21_ReaderSeesWholeState ==
    /\ th.pc # "raised"
    /\ th.pc = "done" =>
          \E i \in 1..Len(th.seen) :
              th.result = MessageCacheBuildMessages([capacity |-> PipelineCacheCapacity,
                                                     cache |-> th.seen[i]])

\* The record is in the file as one complete line: its bytes and its newline,
\* after the start of the file or another newline.
IsWholeLine(file, w, rec, n) ==
    \E p \in 0..(Len(file) - n - 1) :
        /\ SubSeq(file, p + 1, p + n + 1) = Append(RecordBytes(w, rec, n), Newline(w, rec))
        /\ p = 0 \/ file[p][3] = 0

\* C22: when two store_turn calls with the same audit path run concurrently,
\* then, both calls having returned, every record is in the audit file as one
\* complete line, whatever the interleaving.
C22_RecordsAreWholeLines ==
    (\A w \in AuditWriters : aw.pc[w] = "done") =>
        \A w \in AuditWriters : \A rec \in 1..2 : IsWholeLine(aw.file, w, rec, aw.sizes[w][rec])

-----------------------------------------------------------------------------
(* Properties of the query.                                                 *)

\* C23: for every non-blank query, top_k and max_overfetch, a retrieval adapter
\* sends one query, which asks the collection for min(top_k * 4, max_overfetch)
\* results; the collection gives back that many documents, or all it has.
C23_FetchKRequested ==
    (out.op = "chroma" /\ NonBlank(out.q)) =>
        LET part == out.parts[1]
            fetch_k == IF part.top_k * 4 <= part.max_overfetch THEN part.top_k * 4
                       ELSE part.max_overfetch
        IN /\ part.queries = 1
           /\ part.n_results = fetch_k
           /\ Len(part.fetched) = (IF fetch_k <= Len(chroma["episodic"]) THEN fetch_k
                                   ELSE Len(chroma["episodic"]))

\* C23 witness: a query with top_k = 1 and max_overfetch = 3 asked for three
\* results of a collection of four documents and got three.
C23_Witness ==
    /\ out.op = "chroma"
    /\ out.parts[1].top_k = 1
    /\ out.parts[1].max_overfetch = 3
    /\ out.parts[1].n_results = 3
    /\ Len(out.parts[1].fetched) = 3
    /\ Len(chroma["episodic"]) = 4

-----------------------------------------------------------------------------
(* Properties of the order of the chunks.                                   *)

\* The place of the i-th surviving chunk in the order by similarity
\* descending, earlier fetched first among equals.
PlaceOf(i) ==
    1 + Cardinality({j \in 1..Len(rout.survivors) :
                        \/ rout.survivors[j].sim > rout.survivors[i].sim
                        \/ rout.survivors[j].sim = rout.survivors[i].sim /\ j < i})

\* C24: the block holds the surviving chunks by similarity descending, of two
\* chunks with equal similarity the one fetched earlier first, and the cut to
\* top_k keeps the first top_k of that order.
C24_TiesInFetchOrder ==
    (rout.done /\ ~rout.raised) =>
        /\ Len(rout.selected) = Min(rout.top_k, Len(rout.survivors))
        /\ \A i \in 1..Len(rout.survivors) :
              PlaceOf(i) <= Len(rout.selected) => rout.selected[PlaceOf(i)] = rout.survivors[i]

\* C24 witness: two chunks of equal similarity and different text survived,
\* with a more similar one fetched after them; top_k = 2 kept the more similar
\* one and the earlier fetched of the two.
C24_Witness ==
    /\ rout.done
    /\ rout.top_k = 2
    /\ Len(rout.survivors) = 3
    /\ rout.survivors[1].sim = rout.survivors[2].sim
    /\ rout.survivors[1].text # rout.survivors[2].text
    /\ rout.survivors[3].sim > rout.survivors[1].sim
    /\ rout.selected = <<rout.survivors[3], rout.survivors[1]>>

-----------------------------------------------------------------------------
(* Properties of the frame of build_messages.                               *)

\* C25: a build_messages call leaves the adapter registry, the recency caches
\* and the vector store (its collections and their documents) as they were,
\* also when a queried collection did not exist before the call.
C25_BuildHasNoSideEffects ==
    [][BuildStep => (adapters' = adapters /\ caches' = caches /\ chroma' = chroma)]_vars

-----------------------------------------------------------------------------
(* Properties of the size of the result.                                    *)

\* The number of history lines in the content of a chat-history message.
RECURSIVE LineCount(_)
LineCount(content) ==
    IF content = <<>> THEN 0
    ELSE (IF Head(content) = " @ " THEN 1 ELSE 0) + LineCount(Tail(content))

\* C26: in every build_messages result, each retrieval adapter gives no or one
\* message, the recency adapter gives no or one message, of at most
\* 2 * capacity history lines, no message has empty content, and the result
\* has at most 3 + (number of registered adapters) messages.
C26_ContributionsBounded ==
    (out.op = "pipeline" /\ ~out.raised) =>
        /\ Len(out.parts) = Len(adapters)
        /\ \A i \in 1..Len(out.parts) :
              /\ out.parts[i].name = adapters[i].name
              /\ adapters[i].adapter.kind = "chroma" => Len(out.parts[i].msgs) <= 1
              /\ adapters[i].adapter.kind = "message_cache" =>
                    /\ Len(out.parts[i].msgs) <= 1
                    /\ \A k \in 1..Len(out.parts[i].msgs) :
                          LineCount(out.parts[i].msgs[k].content)
                            <= 2 * caches[adapters[i].adapter.ref].capacity
        /\ \A k \in 1..Len(out.msgs) : out.msgs[k].content # <<>>
        /\ Len(out.msgs) <= 3 + Len(adapters)

\* C26 witness: more turns were added to a cache of capacity 1 than it holds,
\* its block has two history lines, and a retrieval adapter gave one message.
C26_Witness ==
    /\ out.op = "pipeline"
    /\ ~out.raised
    /\ Len(added[AppCache]) > 1
    /\ \E i \in 1..Len(out.parts) :
          /\ adapters[i].adapter.kind = "message_cache"
          /\ caches[adapters[i].adapter.ref].capacity = 1
          /\ Len(out.parts[i].msgs) = 1
          /\ LineCount(out.parts[i].msgs[1].content) = 2
    /\ \E i \in 1..Len(out.parts) :
          adapters[i].adapter.kind = "chroma" /\ Len(out.parts[i].msgs) = 1

-----------------------------------------------------------------------------
(* Properties of the audit file.                                            *)

\* The ids of the documents in the vector store.
StoredIds == UNION {{chroma[n][j].id : j \in 1..Len(chroma[n])} : n \in DOMAIN chroma}

\* C27: after any sequence of store_turn and store_batch calls, some failing in
\* the write to the vector store, every id in the audit file is the id of a
\* document in the vector store, and a call whose store write failed appended
\* no line.
C27_AuditedIdsAreStored ==
    /\ \A i \in 1..Len(audit) : audit[i].id \in StoredIds
    /\ (sres.called /\ sres.raised = "store") => LinesAppended = <<>>

\* C27 witness: a call with an audit path failed in its second collection.add,
\* after its first batch was written, with lines of an earlier call in the
\* audit file.
C27_Witness ==
    /\ sres.called /\ sres.path
    /\ sres.raised = "store"
    /\ Len(DocumentsWritten) >= 1
    /\ sres.linesBefore >= 2
    /\ Len(audit) = sres.linesBefore

\* The tool names the loop knows.
RegisteredTools == {"add_fact", "create_todo", "list_active_todos"}

\* What the claim fixes of a message: a response whole, a tool message by its
\* tool_call_id, its name and whether its status is unknown_tool.
Shape(message) ==
    IF message.role = "tool"
    THEN [role |-> "tool", tool_call_id |-> message.tool_call_id, name |-> message.name,
          unknown |-> message.content.status = "unknown_tool"]
    ELSE message

\* A response with tool calls, followed by one tool message per call, in the
\* order of the calls.
Round(response) ==
    IF response.tool_calls = <<>> THEN <<>>
    ELSE <<response>> \o
         [i \in 1..Len(response.tool_calls) |->
            [role |-> "tool", tool_call_id |-> response.tool_calls[i].id,
             name |-> response.tool_calls[i].function.name,
             unknown |-> response.tool_calls[i].function.name \notin RegisteredTools]]

RECURSIVE Rounds(_)
Rounds(responses) ==
    IF responses = <<>> THEN <<>>
    ELSE Rounds(SubSeq(responses, 1, Len(responses) - 1)) \o Round(responses[Len(responses)])

Shapes(messages) == [i \in 1..Len(messages) |-> Shape(messages[i])]

C29_NoTextLost ==
    (ck.pc = "returned" /\ ck.text # <<>>) =>
        \A i \in 1..Len(ck.text) : \E c \in 1..Len(ck.chunks) : \E j \in 1..Len(ck.chunks[c]) :
            ck.chunks[c][j] = ck.text[i]

\* The stored record of a conversation that add_turn added turns to holds
\* exactly those turns among its turns, once each, in the order added.
HoldsAddedTurns(record) ==
    SelectSeq(record.turns, LAMBDA t : \E k \in 1..Len(ym.log[record.uuid]) : ym.log[record.uuid][k].uuid = t.uuid)
        = ym.log[record.uuid]

\* C30: the YAML store holds at most one record per conversation uuid, and
\* every turn that add_turn added to a stored conversation is in that
\* conversation's stored turns exactly once, in the order added, last_active
\* being the timestamp of the response added last.
C30_StoredTurnsAreAddedTurns ==
    /\ \A i, j \in 1..Len(ym.data) : ym.data[i].uuid = ym.data[j].uuid => i = j
    /\ \A i \in 1..Len(ym.data) :
          /\ HoldsAddedTurns(ym.data[i])
          /\ ym.log[ym.data[i].uuid] # <<>> =>
                ym.data[i].last_active = ym.log[ym.data[i].uuid][Len(ym.log[ym.data[i].uuid])].timestamp
====
